---- MODULE Spec2Model ----
(***************************************************************************)
(* TypeBus-CQRS: the handler registry, the middleware chain, the timeout   *)
(* race and the event fan-out of class TypeBus.                            *)
(*                                                                         *)
(* The repository holds two revisions of core/TypeBus.ts.  The variable    *)
(* impl says which one a behaviour runs:                                   *)
(*   "fold"  - the chain is folded from the middleware list when the       *)
(*             dispatch starts, withTimeout leaves its timer armed;        *)
(*   "index" - the chain walks this.middlewares with a per-dispatch index, *)
(*             withTimeout clears its timer when the race settles.         *)
(*                                                                         *)
(* JavaScript runs one task at a time, and a chain gives up control only   *)
(* at an await: a dispatch call runs its chain up to the first await that  *)
(* has to wait, and the continuations made ready by a completion are       *)
(* microtasks, which run before the next timer or I/O completion.  An      *)
(* action is therefore one task of the event loop with its microtasks.     *)
(***************************************************************************)
EXTENDS Integers, Sequences, FiniteSets, TLC

\* ------------------------------------------------------------------ bounds
MaxOps == 4     \* calls the application makes on the bus in one behaviour
MaxInvs == 2    \* handler invocations started in one behaviour

\* ------------------------------------------------------- configuration
maxMiddleware == 2        \* config.maxMiddleware the bus is constructed with
commandTimeout == 30000   \* config.commandTimeout default
queryTimeout == 10000     \* config.queryTimeout default

\* --------------------------------------------------------------- input sets
Types == {"T1", "T2"}
Handlers == {"h1", "h2"}
NoHandler == "none"
Middleware == {"mA", "mB", "mHang", "mShort", "mRetry"}
\* The middleware of a bus on which envelopes are substituted.
EnvelopeMiddleware == {"mA", "mSubst"}
\* The middleware of a bus that is cleared while dispatches are in flight:
\* one that passes on at once and one that waits before it passes on.
ClearMiddleware == {"mA", "mWait"}
\* The middleware that answer with an outcome other than their
\* continuation's, and one that passes it on.
OutcomeMiddleware == {"mA", "mCatch", "mReplace", "mThrow"}
Impls == {"fold", "index"}

\* What a middleware's execute(message, next) does:
\*   "pass": before; result = await next(message); after; return result
\*   "hang": before; awaits a promise that never settles
\*   "short": before; awaits work of its own and returns or throws what that
\*            gives, never calling next
\*   "retry": as "pass", but when next(message) fails it calls
\*            next(message) once more and returns or throws what that gives
\*   "catch": as "pass", but when next(message) fails it returns a value of
\*            its own in place of the failure
\*   "replace": as "pass", but it returns a value of its own in place of the
\*            result of next(message)
\*   "throw": as "pass", but when next(message) has succeeded it throws
\*   "wait": before; awaits work of its own; then as "pass"
\*   "subst": as "pass", but it calls next with an envelope of its own
\*            making in place of the one it was given
MwKind(m) ==
  IF m = "mHang" THEN "hang"
  ELSE IF m = "mShort" THEN "short"
  ELSE IF m = "mRetry" THEN "retry"
  ELSE IF m = "mCatch" THEN "catch"
  ELSE IF m = "mReplace" THEN "replace"
  ELSE IF m = "mThrow" THEN "throw"
  ELSE IF m = "mWait" THEN "wait"
  ELSE IF m = "mSubst" THEN "subst"
  ELSE "pass"

\* The caller's arguments of a dispatch call: data (params for a query),
\* aggregateId, version and metadata.
Inputs ==
  { [data |-> "d1", aggregateId |-> "a1", version |-> 1, metadata |-> "meta"] }

\* The message types dispatch calls are made for; the other type is known
\* to the registry only.
Dispatched == {"T1"}

VARIABLES
  impl,             \* which revision of TypeBus
  commandHandlers,  \* Map<string, IMessageHandler>
  queryHandlers,    \* Map<string, IMessageHandler>
  eventHandlers,    \* Map<string, IMessageHandler[]>; <<>> when the key is absent
  middlewares,      \* IMiddleware[]
  nextId,           \* the messages created so far (MessageFactory.generateId)
  calls,            \* the dispatch calls made, in call order: the envelope, the
                    \* handlers looked up, the middleware list at the call, the
                    \* invocations started and the outcome the caller gets
  invs,             \* the executeWithMiddleware invocations, in start order
  lastOp,           \* how the last register*/use/clear call returned
  nRegs             \* number of register*/use/clear calls made

registry == <<commandHandlers, queryHandlers, eventHandlers, middlewares>>
vars == <<impl, commandHandlers, queryHandlers, eventHandlers, middlewares,
          nextId, calls, invs, lastOp, nRegs>>

\* ------------------------------------------------------------ outcomes
Pending == [st |-> "pending", val |-> <<>>]
Ok(v) == [st |-> "ok", val |-> v]
Fail(e) == [st |-> "fail", val |-> e]

\* An error that does not name the message type.
HandlerNotFoundUnnamed(kind, type) == <<"HandlerNotFound", kind, "">>

HandlerNotFound(kind, type) == <<"HandlerNotFound", kind, type>>
DuplicateRegistration(kind, type) == <<"DuplicateRegistration", kind, type>>
MiddlewareLimitExceeded == <<"MiddlewareLimitExceeded", maxMiddleware>>
Timeout(type, ms) == <<"Timeout", type, ms>>
HandlerFailure(h, envId) == <<"HandlerFailure", h, envId>>
MiddlewareFailure(m, envId) == <<"MiddlewareFailure", m, envId>>
MiddlewareResult(m, env) == <<"result", m, env.id, env.data>>
Recovered(m, error) == <<"recovered", m, error>>
Replaced(m, result) == <<"replaced", m, result>>
HandlerResult(h, env) == <<"result", h, env.id, env.data>>

\* ------------------------------------------------------------ construction
Init ==
  /\ impl \in Impls
  /\ commandHandlers = [t \in Types |-> NoHandler]
  /\ queryHandlers = [t \in Types |-> NoHandler]
  /\ eventHandlers = [t \in Types |-> <<>>]
  /\ middlewares = <<>>
  /\ nextId = 1
  /\ calls = <<>>
  /\ invs = <<>>
  /\ lastOp = Ok(<<>>)
  /\ nRegs = 0

dispatchVars == <<nextId, calls, invs>>

\* The calls made on the bus so far: registrations and dispatches.
OpsMade == nRegs + Len(calls)

\* ------------------------------------------------------------ registration
\* (useOffByOne: the cap compared with > instead of >=.)
useOffByOne(m) ==
  /\ OpsMade < MaxOps
  /\ nRegs' = nRegs + 1
  /\ IF Len(middlewares) > maxMiddleware
       THEN /\ lastOp' = Fail(MiddlewareLimitExceeded)
            /\ UNCHANGED middlewares
       ELSE /\ middlewares' = Append(middlewares, m)
            /\ lastOp' = Ok(<<>>)
  /\ UNCHANGED <<impl, commandHandlers, queryHandlers, eventHandlers>>
  /\ UNCHANGED dispatchVars

\* (useUnlimited: use() without the limit.)
useUnlimited(m) ==
  /\ OpsMade < MaxOps
  /\ nRegs' = nRegs + 1
  /\ middlewares' = Append(middlewares, m)
  /\ lastOp' = Ok(<<>>)
  /\ UNCHANGED <<impl, commandHandlers, queryHandlers, eventHandlers>>
  /\ UNCHANGED dispatchVars

use(m) ==
  /\ OpsMade < MaxOps
  /\ nRegs' = nRegs + 1
  /\ IF Len(middlewares) >= maxMiddleware
       THEN /\ lastOp' = Fail(MiddlewareLimitExceeded)
            /\ UNCHANGED middlewares
       ELSE /\ middlewares' = Append(middlewares, m)
            /\ lastOp' = Ok(<<>>)
  /\ UNCHANGED <<impl, commandHandlers, queryHandlers, eventHandlers>>
  /\ UNCHANGED dispatchVars

\* A registration that silently replaces the handler already bound.
registerCommandHandlerOverwrite(t, h) ==
  /\ OpsMade < MaxOps
  /\ nRegs' = nRegs + 1
  /\ commandHandlers' = [commandHandlers EXCEPT ![t] = h]
  /\ lastOp' = Ok(<<>>)
  /\ UNCHANGED <<impl, queryHandlers, eventHandlers, middlewares>>
  /\ UNCHANGED dispatchVars

registerCommandHandler(t, h) ==
  /\ OpsMade < MaxOps
  /\ nRegs' = nRegs + 1
  /\ IF commandHandlers[t] # NoHandler
       THEN /\ lastOp' = Fail(DuplicateRegistration("command", t))
            /\ UNCHANGED commandHandlers
       ELSE /\ commandHandlers' = [commandHandlers EXCEPT ![t] = h]
            /\ lastOp' = Ok(<<>>)
  /\ UNCHANGED <<impl, queryHandlers, eventHandlers, middlewares>>
  /\ UNCHANGED dispatchVars

\* (registerQueryHandlerRebind: a second registration takes the type over
\* from the first.)
registerQueryHandlerRebind(t, h) ==
  /\ OpsMade < MaxOps
  /\ nRegs' = nRegs + 1
  /\ queryHandlers' = [queryHandlers EXCEPT ![t] = h]
  /\ lastOp' = Ok(<<>>)
  /\ UNCHANGED <<impl, commandHandlers, eventHandlers, middlewares>>
  /\ UNCHANGED dispatchVars

registerQueryHandler(t, h) ==
  /\ OpsMade < MaxOps
  /\ nRegs' = nRegs + 1
  /\ IF queryHandlers[t] # NoHandler
       THEN /\ lastOp' = Fail(DuplicateRegistration("query", t))
            /\ UNCHANGED queryHandlers
       ELSE /\ queryHandlers' = [queryHandlers EXCEPT ![t] = h]
            /\ lastOp' = Ok(<<>>)
  /\ UNCHANGED <<impl, commandHandlers, eventHandlers, middlewares>>
  /\ UNCHANGED dispatchVars

\* (registerEventHandlerUnique: a handler already subscribed to the type
\* is refused like a second command handler.)
registerEventHandlerUnique(t, h) ==
  /\ OpsMade < MaxOps
  /\ nRegs' = nRegs + 1
  /\ IF \E k \in 1..Len(eventHandlers[t]) : eventHandlers[t][k] = h
       THEN /\ lastOp' = Fail(DuplicateRegistration("event", t))
            /\ UNCHANGED eventHandlers
       ELSE /\ eventHandlers' = [eventHandlers EXCEPT ![t] = Append(@, h)]
            /\ lastOp' = Ok(<<>>)
  /\ UNCHANGED <<impl, commandHandlers, queryHandlers, middlewares>>
  /\ UNCHANGED dispatchVars

\* (registerEventHandlerJoins: a handler registered while a publish to its
\* type is pending is added to the handlers of that publish.)
registerEventHandlerJoins(t, h) ==
  /\ OpsMade < MaxOps
  /\ nRegs' = nRegs + 1
  /\ eventHandlers' = [eventHandlers EXCEPT ![t] = Append(@, h)]
  /\ lastOp' = Ok(<<>>)
  /\ calls' = [c \in 1..Len(calls) |->
                 IF /\ calls[c].kind = "event" /\ calls[c].type = t
                    /\ calls[c].outcome.st = "pending"
                   THEN [calls[c] EXCEPT !.handlers = Append(@, h)]
                   ELSE calls[c]]
  /\ UNCHANGED <<impl, commandHandlers, queryHandlers, middlewares,
                 nextId, invs>>

registerEventHandler(t, h) ==
  /\ OpsMade < MaxOps
  /\ nRegs' = nRegs + 1
  /\ eventHandlers' = [eventHandlers EXCEPT ![t] = Append(@, h)]
  /\ lastOp' = Ok(<<>>)
  /\ UNCHANGED <<impl, commandHandlers, queryHandlers, middlewares>>
  /\ UNCHANGED dispatchVars

\* (clearHandlersOnly: a clear that forgets the middleware list.)
clearHandlersOnly ==
  /\ OpsMade < MaxOps
  /\ nRegs' = nRegs + 1
  /\ commandHandlers' = [t \in Types |-> NoHandler]
  /\ queryHandlers' = [t \in Types |-> NoHandler]
  /\ eventHandlers' = [t \in Types |-> <<>>]
  /\ lastOp' = Ok(<<>>)
  /\ UNCHANGED <<impl, middlewares>>
  /\ UNCHANGED dispatchVars

clear ==
  /\ OpsMade < MaxOps
  /\ nRegs' = nRegs + 1
  /\ commandHandlers' = [t \in Types |-> NoHandler]
  /\ queryHandlers' = [t \in Types |-> NoHandler]
  /\ eventHandlers' = [t \in Types |-> <<>>]
  /\ middlewares' = <<>>
  /\ lastOp' = Ok(<<>>)
  /\ UNCHANGED impl
  /\ UNCHANGED dispatchVars

\* ------------------------------------------------------------ introspection
\* Map.keys(): the keys of a registry map; a type is a key of the map when
\* something is bound to it.
CommandKeys == {t \in Types : commandHandlers[t] # NoHandler}
QueryKeys == {t \in Types : queryHandlers[t] # NoHandler}
EventKeys == {t \in Types : eventHandlers[t] # <<>>}

\* Array.from(map.values()).reduce((sum, handlers) => sum + handlers.length, 0)
RECURSIVE SumLengths(_, _)
SumLengths(map, keys) ==
  IF keys = {} THEN 0
  ELSE LET t == CHOOSE k \in keys : TRUE
       IN Len(map[t]) + SumLengths(map, keys \ {t})

\* (getStatsEventTypes: eventHandlers reported as the size of the event map.)
getStatsEventTypes ==
  [commandHandlers |-> Cardinality(CommandKeys),
   queryHandlers |-> Cardinality(QueryKeys),
   eventHandlers |-> Cardinality(EventKeys),
   middleware |-> Len(middlewares),
   totalHandlers |-> Cardinality(CommandKeys) + Cardinality(QueryKeys)
                       + Cardinality(EventKeys)]

getStats ==
  [commandHandlers |-> Cardinality(CommandKeys),
   queryHandlers |-> Cardinality(QueryKeys),
   eventHandlers |-> SumLengths(eventHandlers, EventKeys),
   middleware |-> Len(middlewares),
   totalHandlers |-> Cardinality(CommandKeys) + Cardinality(QueryKeys)
                       + SumLengths(eventHandlers, EventKeys)]

\* Array.from(map.keys()): the keys as a list.  A Map lists its keys in
\* insertion order; the registries keep no insertion order here, and the
\* list is in an arbitrary fixed order.
RECURSIVE KeyList(_)
KeyList(keys) ==
  IF keys = {} THEN <<>>
  ELSE LET t == CHOOSE k \in keys : TRUE
       IN <<t>> \o KeyList(keys \ {t})

\* One entry of the event type for each handler bound to it.
RECURSIVE KeyPerHandler(_)
KeyPerHandler(keys) ==
  IF keys = {} THEN <<>>
  ELSE LET t == CHOOSE k \in keys : TRUE
       IN [k \in 1..Len(eventHandlers[t]) |-> t] \o KeyPerHandler(keys \ {t})

\* (getRegisteredHandlersPerHandler: events lists a type once per handler.)
getRegisteredHandlersPerHandler ==
  [commands |-> KeyList(CommandKeys),
   queries |-> KeyList(QueryKeys),
   events |-> KeyPerHandler(EventKeys)]

getRegisteredHandlers ==
  [commands |-> KeyList(CommandKeys),
   queries |-> KeyList(QueryKeys),
   events |-> KeyList(EventKeys)]

\* ------------------------------------------------------------ envelopes
\* (createCommandBare: a command envelope built without the caller's
\* aggregateId and metadata.)
createCommandBare(t, in) ==
  [id |-> nextId, kind |-> "command", type |-> t, timestamp |-> nextId,
   data |-> in.data, aggregateId |-> "", version |-> 0,
   metadata |-> ""]

\* MessageFactory: a fresh identity and the creation time for every message.
createCommand(t, in) ==
  [id |-> nextId, kind |-> "command", type |-> t, timestamp |-> nextId,
   data |-> in.data, aggregateId |-> in.aggregateId, version |-> 0,
   metadata |-> in.metadata]

createQuery(t, in) ==
  [id |-> nextId, kind |-> "query", type |-> t, timestamp |-> nextId,
   data |-> in.data, aggregateId |-> "", version |-> 0,
   metadata |-> in.metadata]

createEvent(t, in) ==
  [id |-> nextId, kind |-> "event", type |-> t, timestamp |-> nextId,
   data |-> in.data, aggregateId |-> in.aggregateId, version |-> in.version,
   metadata |-> in.metadata]

\* (NewInvSharedIndex: the index of the dispatch closure kept in one place
\* for the whole bus, so that a dispatch goes on from where a dispatch in
\* flight has got to.)
NewInvSharedIndex(c, h, env, ms) ==
  [call |-> c, handler |-> h, env |-> env, timeoutMs |-> ms,
   chain |-> <<>>,
   index |-> IF \E j \in 1..Len(invs) : invs[j].chainOut.st = "pending"
               THEN invs[CHOOSE j \in 1..Len(invs) :
                           invs[j].chainOut.st = "pending"].index
               ELSE 0,
   stack |-> <<>>,
   chainOut |-> Pending, raceOut |-> Pending, timer |-> "unset", log |-> <<>>]

\* ------------------------------------------------------------ chains
\* One call of executeWithMiddleware(message, handler, timeout).
\*   chain    the middleware the folded chain closes over ("fold")
\*   index    the dispatch closure's index ("index")
\*   stack    the execute()/handle() calls in progress, outermost first
\*   chainOut the promise chain(message); raceOut the promise of withTimeout
\*   timer    withTimeout's setTimeout: unset, pending, fired or cleared
\*   log      what the middleware and the handler have observed, in order
NewInv(c, h, env, ms) ==
  [call |-> c, handler |-> h, env |-> env, timeoutMs |-> ms,
   chain |-> <<>>, index |-> 0, stack |-> <<>>,
   chainOut |-> Pending, raceOut |-> Pending, timer |-> "unset", log |-> <<>>]

\* A call in progress: pc is "start" (entered), "await" (a middleware
\* waiting for next(msg)), "ready" (what it awaited has settled with child),
\* "io" (waiting for something outside the bus) or "hung"; nexts counts the
\* calls it has made of its continuation.
MwFrame(m, pos, env) ==
  [unit |-> m, isH |-> FALSE, pos |-> pos, pc |-> "start", env |-> env,
   child |-> Pending, nexts |-> 0]

HFrame(h, pos, env) ==
  [unit |-> h, isH |-> TRUE, pos |-> pos, pc |-> "start", env |-> env,
   child |-> Pending, nexts |-> 0]

Top(inv) == inv.stack[Len(inv.stack)]

Entry(ph, unit, env) == [ph |-> ph, unit |-> unit, env |-> env]

\* (NextFrameReversed: the chain wrapped in the wrong direction, the last
\* registered middleware outermost.)
\* The continuation handed to the frame at position pos, called with msg:
\* the frame it starts and the index it leaves behind.
\*   "fold":  chain[pos+1], or the handler after the last middleware
\*   "index": this.middlewares[index++] while index < length, else the handler
NextFrameReversed(inv, pos, msg) ==
  IF impl = "fold"
    THEN IF pos < Len(inv.chain)
           THEN MwFrame(inv.chain[Len(inv.chain) - pos], pos + 1, msg)
           ELSE HFrame(inv.handler, pos + 1, msg)
    ELSE IF inv.index < Len(middlewares)
           THEN MwFrame(middlewares[Len(middlewares) - inv.index], pos + 1, msg)
           ELSE HFrame(inv.handler, pos + 1, msg)

NextFrame(inv, pos, msg) ==
  IF impl = "fold"
    THEN IF pos < Len(inv.chain)
           THEN MwFrame(inv.chain[pos + 1], pos + 1, msg)
           ELSE HFrame(inv.handler, pos + 1, msg)
    ELSE IF inv.index < Len(middlewares)
           THEN MwFrame(middlewares[inv.index + 1], pos + 1, msg)
           ELSE HFrame(inv.handler, pos + 1, msg)

NextIndex(inv) ==
  IF impl = "index" /\ inv.index < Len(middlewares)
    THEN inv.index + 1 ELSE inv.index

\* (CallNextOriginal: every continuation is bound to the message the
\* dispatch was made with, whatever it is called with.)
CallNextOriginal(inv, pos, msg) ==
  [inv EXCEPT !.stack = Append(@, NextFrame(inv, pos, inv.env)),
              !.index = NextIndex(inv)]

CallNext(inv, pos, msg) ==
  [inv EXCEPT !.stack = Append(@, NextFrame(inv, pos, msg)),
              !.index = NextIndex(inv)]

\* (BeginHandlerOnly: the handler is called directly, with no middleware
\* around it.)
BeginHandlerOnly(inv) ==
  [inv EXCEPT !.stack = <<HFrame(inv.handler, 1, inv.env)>>,
              !.index = Len(middlewares)]

\* executeWithMiddleware is entered: the chain is built and chain(message)
\* is called.
Begin(inv) ==
  CallNext([inv EXCEPT !.chain = IF impl = "fold" THEN middlewares ELSE <<>>],
           0, inv.env)

\* The envelope a substituting middleware m hands to its continuation when
\* given env: next({ ...message, version: ..., metadata: ... }).
Substituted(m, env) == [env EXCEPT !.metadata = m, !.version = @ + 1]

\* A middleware's execute(message, next) runs up to its first await.
MwStart(inv) ==
  LET n == Len(inv.stack)
      f == Top(inv)
      logged == [inv EXCEPT !.log = Append(@, Entry("before", f.unit, f.env))]
  IN IF MwKind(f.unit) \in {"pass", "retry", "catch", "replace", "throw"}
       THEN CallNext([logged EXCEPT !.stack[n].pc = "await",
                                    !.stack[n].nexts = 1], f.pos, f.env)
     ELSE IF MwKind(f.unit) = "subst"
       THEN CallNext([logged EXCEPT !.stack[n].pc = "await",
                                    !.stack[n].nexts = 1], f.pos,
                     Substituted(f.unit, f.env))
     ELSE IF MwKind(f.unit) \in {"short", "wait"}
       THEN [logged EXCEPT !.stack[n].pc = "io"]
       ELSE [logged EXCEPT !.stack[n].pc = "hung"]

\* The handler's handle(message) runs up to its first await: it waits for
\* something outside the bus, which may never come.
HandlerStart(inv) ==
  LET n == Len(inv.stack)
      f == Top(inv)
  IN [inv EXCEPT !.log = Append(@, Entry("handle", f.unit, f.env)),
                 !.stack[n].pc = "io"]

\* The calls a chain makes without giving up control.  (The singleton set
\* fixes the intermediate state before the next call is taken.)
RECURSIVE Run(_)
Run(inv) ==
  IF inv.stack = <<>> \/ Top(inv).pc # "start" THEN inv
  ELSE IF Top(inv).isH THEN HandlerStart(inv)
  ELSE CHOOSE r \in {Run(started) : started \in {MwStart(inv)}} : TRUE

\* (ChainSettledLastWins: the chain's result replaces an outcome the
\* timeout has already delivered.)
ChainSettledLastWins(inv, out) ==
  [inv EXCEPT !.chainOut = out,
              !.raceOut = out,
              !.timer = IF impl = "index" /\ @ = "pending" THEN "cleared" ELSE @]

\* The promise chain(message) settles with out: Promise.race takes it if the
\* timer has not fired, and the "index" revision then clears its timer.
ChainSettled(inv, out) ==
  [inv EXCEPT !.chainOut = out,
              !.raceOut = IF @.st = "pending" THEN out ELSE @,
              !.timer = IF impl = "index" /\ @ = "pending" THEN "cleared" ELSE @]

\* The innermost call in progress returns or throws: its caller's await
\* becomes ready; when it was the outermost call the chain has settled.
SettleFrame(inv, out) ==
  LET n == Len(inv.stack)
      popped == [inv EXCEPT !.stack = SubSeq(@, 1, n - 1)]
  IN IF n > 1
       THEN [popped EXCEPT !.stack[n - 1].pc = "ready",
                           !.stack[n - 1].child = out]
       ELSE ChainSettled(popped, out)

\* (MwResumeWraps: a middleware that catches the failure of next(message)
\* and throws an error of its own around it.)
MwResumeWraps(inv) ==
  LET f == Top(inv)
      logged == [inv EXCEPT !.log = Append(@, Entry("after", f.unit, f.env))]
  IN IF f.child.st = "ok"
       THEN SettleFrame(logged, f.child)
       ELSE SettleFrame(inv, Fail(<<"Wrapped", f.unit, f.child.val>>))

\* (MwResumeTransparent: whatever the middleware returns or throws, its
\* caller gets what next(message) gave.)
MwResumeTransparent(inv) ==
  LET f == Top(inv)
      logged == [inv EXCEPT !.log = Append(@, Entry("after", f.unit, f.env))]
  IN IF f.child.st = "ok"
       THEN SettleFrame(logged, f.child)
       ELSE SettleFrame(inv, f.child)

\* A middleware resumes after `await next(message)`: it returns the result
\* after its post-logic, or lets the failure propagate; a retrying one
\* answers the first failure by calling next(message) again; the caller of
\* a catching, replacing or throwing one gets what the middleware itself
\* returns or throws.
MwResume(inv) ==
  LET n == Len(inv.stack)
      f == Top(inv)
      logged == [inv EXCEPT !.log = Append(@, Entry("after", f.unit, f.env))]
  IN IF f.child.st = "ok"
       THEN IF MwKind(f.unit) = "replace"
              THEN SettleFrame(logged, Ok(Replaced(f.unit, f.child.val)))
            ELSE IF MwKind(f.unit) = "throw"
              THEN SettleFrame(inv, Fail(MiddlewareFailure(f.unit, f.env.id)))
              ELSE SettleFrame(logged, f.child)
     ELSE IF MwKind(f.unit) = "catch"
       THEN SettleFrame(logged, Ok(Recovered(f.unit, f.child.val)))
     ELSE IF MwKind(f.unit) = "retry" /\ f.nexts = 1
       THEN CallNext([inv EXCEPT !.stack[n].pc = "await",
                                 !.stack[n].nexts = 2,
                                 !.stack[n].child = Pending], f.pos, f.env)
       ELSE SettleFrame(inv, f.child)

\* The continuations a completion makes ready, innermost first, each with
\* the calls it makes before it gives up control again.
RECURSIVE Unwind(_)
Unwind(inv) ==
  IF inv.stack # <<>> /\ Top(inv).pc = "ready"
    THEN CHOOSE r \in {Unwind(Run(resumed)) : resumed \in {MwResume(inv)}} : TRUE
    ELSE inv

\* (ArmedNever: executeWithMiddleware awaits the chain without withTimeout.)
ArmedNever(inv) == inv

\* withTimeout(chain(message), timeout, message.type) arms its timer once
\* chain(message) has returned its promise.
Armed(inv) ==
  IF inv.timer # "unset" THEN inv
  ELSE [inv EXCEPT !.timer =
          IF impl = "index" /\ inv.chainOut.st # "pending"
            THEN "cleared" ELSE "pending"]

\* (executeWithMiddlewareDeferred: the chain is built and its timer armed,
\* but chain(message) is left to be called later.)
executeWithMiddlewareDeferred(c, h, env, ms) ==
  Armed([NewInv(c, h, env, ms) EXCEPT
           !.chain = IF impl = "fold" THEN middlewares ELSE <<>>])

executeWithMiddleware(c, h, env, ms) == Armed(Run(Begin(NewInv(c, h, env, ms))))

\* Promise.all over the invocations of one publishEvent; a command or query
\* call returns what its one invocation returns.
AllOk(ids, is) == \A k \in 1..Len(ids) : is[ids[k]].raceOut.st = "ok"

CallOutcome(call, is) ==
  IF call.invs = <<>> THEN call.outcome
  ELSE IF call.kind = "event"
    THEN IF AllOk(call.invs, is) THEN Ok(<<>>) ELSE call.outcome
    ELSE is[call.invs[1]].raceOut

\* (CallsAfterRaceLastFailure: every failing invocation replaces the
\* outcome of its call.)
CallsAfterRaceLastFailure(i, out, newInvs) ==
  LET c == newInvs[i].call
      call == calls[c]
  IN IF out.st = "fail" THEN [calls EXCEPT ![c].outcome = out]
     ELSE IF call.outcome.st # "pending" THEN calls
     ELSE [calls EXCEPT ![c].outcome = CallOutcome(call, newInvs)]

\* The calls after invocation i of newInvs has settled its race with out.
CallsAfterRace(i, out, newInvs) ==
  LET c == newInvs[i].call
      call == calls[c]
  IN IF call.outcome.st # "pending" THEN calls
     ELSE IF out.st = "fail" THEN [calls EXCEPT ![c].outcome = out]
     ELSE [calls EXCEPT ![c].outcome = CallOutcome(call, newInvs)]

\* (CallsAfterUnlessTimeout: Promise.all waits on for an invocation whose
\* race was lost to the timer.)
CallsAfterUnlessTimeout(i, inv) ==
  IF /\ invs[i].raceOut.st = "pending" /\ inv.raceOut.st # "pending"
     /\ ~(inv.raceOut.st = "fail" /\ inv.raceOut.val[1] = "Timeout")
    THEN CallsAfterRace(i, inv.raceOut, [invs EXCEPT ![i] = inv])
    ELSE calls

\* The calls after invocation i changed from invs[i] to inv.
CallsAfter(i, inv) ==
  IF invs[i].raceOut.st = "pending" /\ inv.raceOut.st # "pending"
    THEN CallsAfterRace(i, inv.raceOut, [invs EXCEPT ![i] = inv])
    ELSE calls

\* (InvsAfterCancelSiblings: an invocation whose race fails takes the other
\* invocations of its call down with it.)
InvsAfterCancelSiblings(i, inv) ==
  [j \in 1..Len(invs) |->
     IF j = i THEN inv
     ELSE IF /\ invs[j].call = inv.call
             /\ invs[i].raceOut.st = "pending" /\ inv.raceOut.st = "fail"
       THEN [invs[j] EXCEPT !.stack = <<>>]
       ELSE invs[j]]

\* The invocations after invocation i changed from invs[i] to inv: nothing
\* in executeWithMiddleware, withTimeout or Promise.all touches another
\* invocation.
InvsAfter(i, inv) == [invs EXCEPT ![i] = inv]

\* ------------------------------------------------------------ dispatch
\* (executeCommandAnyRegistry: a command with no command handler falls back
\* to the query handler of the same type name.)
executeCommandAnyRegistry(t, in) ==
  /\ OpsMade < MaxOps
  /\ LET command == createCommand(t, in)
         handler == IF commandHandlers[t] # NoHandler THEN commandHandlers[t]
                    ELSE queryHandlers[t]
         c == Len(calls) + 1
         i == Len(invs) + 1
     IN /\ nextId' = nextId + 1
        /\ IF handler = NoHandler
             THEN /\ calls' = Append(calls,
                        [kind |-> "command", type |-> t, env |-> command,
                         handlers |-> <<>>, mws |-> middlewares, invs |-> <<>>,
                         outcome |-> Fail(HandlerNotFound("command", t))])
                  /\ UNCHANGED invs
             ELSE /\ i <= MaxInvs
                  /\ calls' = Append(calls,
                        [kind |-> "command", type |-> t, env |-> command,
                         handlers |-> <<handler>>, mws |-> middlewares,
                         invs |-> <<i>>, outcome |-> Pending])
                  /\ invs' = Append(invs,
                        executeWithMiddleware(c, handler, command, commandTimeout))
  /\ UNCHANGED <<impl, registry, lastOp, nRegs>>

executeCommand(t, in) ==
  /\ OpsMade < MaxOps
  /\ LET command == createCommand(t, in)
         handler == commandHandlers[t]
         c == Len(calls) + 1
         i == Len(invs) + 1
     IN /\ nextId' = nextId + 1
        /\ IF handler = NoHandler
             THEN /\ calls' = Append(calls,
                        [kind |-> "command", type |-> t, env |-> command,
                         handlers |-> <<>>, mws |-> middlewares, invs |-> <<>>,
                         outcome |-> Fail(HandlerNotFound("command", t))])
                  /\ UNCHANGED invs
             ELSE /\ i <= MaxInvs
                  /\ calls' = Append(calls,
                        [kind |-> "command", type |-> t, env |-> command,
                         handlers |-> <<handler>>, mws |-> middlewares,
                         invs |-> <<i>>, outcome |-> Pending])
                  /\ invs' = Append(invs,
                        executeWithMiddleware(c, handler, command, commandTimeout))
  /\ UNCHANGED <<impl, registry, lastOp, nRegs>>

\* (executeQueryCommandTimeout: a query raced against the command timeout.)
executeQueryCommandTimeout(t, in) ==
  /\ OpsMade < MaxOps
  /\ LET query == createQuery(t, in)
         handler == queryHandlers[t]
         c == Len(calls) + 1
         i == Len(invs) + 1
     IN /\ nextId' = nextId + 1
        /\ IF handler = NoHandler
             THEN /\ calls' = Append(calls,
                        [kind |-> "query", type |-> t, env |-> query,
                         handlers |-> <<>>, mws |-> middlewares, invs |-> <<>>,
                         outcome |-> Fail(HandlerNotFound("query", t))])
                  /\ UNCHANGED invs
             ELSE /\ i <= MaxInvs
                  /\ calls' = Append(calls,
                        [kind |-> "query", type |-> t, env |-> query,
                         handlers |-> <<handler>>, mws |-> middlewares,
                         invs |-> <<i>>, outcome |-> Pending])
                  /\ invs' = Append(invs,
                        executeWithMiddleware(c, handler, query, commandTimeout))
  /\ UNCHANGED <<impl, registry, lastOp, nRegs>>

executeQuery(t, in) ==
  /\ OpsMade < MaxOps
  /\ LET query == createQuery(t, in)
         handler == queryHandlers[t]
         c == Len(calls) + 1
         i == Len(invs) + 1
     IN /\ nextId' = nextId + 1
        /\ IF handler = NoHandler
             THEN /\ calls' = Append(calls,
                        [kind |-> "query", type |-> t, env |-> query,
                         handlers |-> <<>>, mws |-> middlewares, invs |-> <<>>,
                         outcome |-> Fail(HandlerNotFound("query", t))])
                  /\ UNCHANGED invs
             ELSE /\ i <= MaxInvs
                  /\ calls' = Append(calls,
                        [kind |-> "query", type |-> t, env |-> query,
                         handlers |-> <<handler>>, mws |-> middlewares,
                         invs |-> <<i>>, outcome |-> Pending])
                  /\ invs' = Append(invs,
                        executeWithMiddleware(c, handler, query, queryTimeout))
  /\ UNCHANGED <<impl, registry, lastOp, nRegs>>

\* (StartFirstOnly: only the first registered handler is invoked.)
StartFirstOnly(c, handlers, event) ==
  IF handlers = <<>> THEN <<>>
  ELSE <<executeWithMiddleware(c, handlers[1], event, commandTimeout)>>

\* handlers.map(handler => this.executeWithMiddleware(event, handler,
\* commandTimeout)): one invocation per handler, in registration order, all
\* given the one event envelope.
StartAll(c, handlers, event) ==
  [k \in 1..Len(handlers) |->
     executeWithMiddleware(c, handlers[k], event, commandTimeout)]

\* (publishEventStrict: publishing to zero subscribers is refused like a
\* command without a handler.)
publishEventStrict(t, in) ==
  /\ OpsMade < MaxOps
  /\ LET event == createEvent(t, in)
         handlers == eventHandlers[t]
         c == Len(calls) + 1
         n == Len(invs)
         promises == StartAll(c, handlers, event)
         ids == [k \in 1..Len(promises) |-> n + k]
     IN /\ nextId' = nextId + 1
        /\ IF Len(handlers) = 0
             THEN /\ calls' = Append(calls,
                        [kind |-> "event", type |-> t, env |-> event,
                         handlers |-> <<>>, mws |-> middlewares,
                         invs |-> <<>>,
                         outcome |-> Fail(HandlerNotFound("event", t))])
                  /\ UNCHANGED invs
             ELSE /\ n + Len(handlers) <= MaxInvs
                  /\ calls' = Append(calls,
                        [kind |-> "event", type |-> t, env |-> event,
                         handlers |-> handlers, mws |-> middlewares,
                         invs |-> ids, outcome |-> Pending])
                  /\ invs' = invs \o promises
  /\ UNCHANGED <<impl, registry, lastOp, nRegs>>

publishEvent(t, in) ==
  /\ OpsMade < MaxOps
  /\ LET event == createEvent(t, in)
         handlers == eventHandlers[t]
         c == Len(calls) + 1
         n == Len(invs)
         promises == StartAll(c, handlers, event)
         ids == [k \in 1..Len(promises) |-> n + k]
     IN /\ nextId' = nextId + 1
        /\ IF Len(handlers) = 0
             THEN /\ calls' = Append(calls,
                        [kind |-> "event", type |-> t, env |-> event,
                         handlers |-> <<>>, mws |-> middlewares,
                         invs |-> <<>>, outcome |-> Ok(<<>>)])
                  /\ UNCHANGED invs
             ELSE /\ n + Len(handlers) <= MaxInvs
                  /\ calls' = Append(calls,
                        [kind |-> "event", type |-> t, env |-> event,
                         handlers |-> handlers, mws |-> middlewares,
                         invs |-> ids, outcome |-> Pending])
                  /\ invs' = invs \o promises
  /\ UNCHANGED <<impl, registry, lastOp, nRegs>>

\* The executor TypedCommandBuilder.create(bus, t, handlerLogic) returns
\* once bus.registerCommandHandler(t, handler) has succeeded:
\* execute(data, aggregateId, metadata) calls bus.executeCommand with the
\* type it was created for.  An executor is taken to exist for the types
\* that have a handler.
CommandExecute(t, in) ==
  /\ commandHandlers[t] # NoHandler
  /\ executeCommand(t, in)

\* The executor TypedQueryBuilder.create returns: execute(params, metadata)
\* calls bus.executeQuery with the type it was created for.
QueryExecute(t, in) ==
  /\ queryHandlers[t] # NoHandler
  /\ executeQuery(t, in)

\* (HandlerSettleConsumes: a command handler is unbound once it has
\* returned or thrown.)
HandlerSettleConsumes(i) ==
  /\ invs[i].stack # <<>>
  /\ LET inv == invs[i]
         f == Top(inv)
     IN /\ f.isH /\ f.pc = "io"
        /\ \E out \in {Ok(HandlerResult(f.unit, f.env)),
                       Fail(HandlerFailure(f.unit, f.env.id))} :
             LET new == Unwind(SettleFrame(inv, out))
             IN /\ invs' = InvsAfter(i, new)
                /\ calls' = CallsAfter(i, new)
        /\ commandHandlers' =
             IF calls[inv.call].kind = "command"
               THEN [commandHandlers EXCEPT ![inv.env.type] = NoHandler]
               ELSE commandHandlers
  /\ UNCHANGED <<impl, queryHandlers, eventHandlers, middlewares, nextId,
                 lastOp, nRegs>>

\* What the handler of invocation i was waiting for arrives: handle()
\* returns or throws, and the middleware around it resume in turn.
HandlerSettle(i) ==
  /\ invs[i].stack # <<>>
  /\ LET inv == invs[i]
         f == Top(inv)
     IN /\ f.isH /\ f.pc = "io"
        /\ \E out \in {Ok(HandlerResult(f.unit, f.env)),
                       Fail(HandlerFailure(f.unit, f.env.id))} :
             LET new == Unwind(SettleFrame(inv, out))
             IN /\ invs' = InvsAfter(i, new)
                /\ calls' = CallsAfter(i, new)
  /\ UNCHANGED <<impl, registry, nextId, lastOp, nRegs>>

\* What the short-circuiting middleware of invocation i was waiting for
\* arrives: execute() returns or throws without having called next.
MwSettle(i) ==
  /\ invs[i].stack # <<>>
  /\ LET inv == invs[i]
         f == Top(inv)
     IN /\ ~f.isH /\ f.pc = "io" /\ MwKind(f.unit) = "short"
        /\ \E out \in {Ok(MiddlewareResult(f.unit, f.env)),
                       Fail(MiddlewareFailure(f.unit, f.env.id))} :
             LET new == Unwind(SettleFrame(inv, out))
             IN /\ invs' = InvsAfter(i, new)
                /\ calls' = CallsAfter(i, new)
  /\ UNCHANGED <<impl, registry, nextId, lastOp, nRegs>>

\* What the waiting middleware of invocation i was waiting for arrives:
\* execute() goes on to `await next(message)`.
MwProceed(i) ==
  /\ invs[i].stack # <<>>
  /\ LET inv == invs[i]
         n == Len(inv.stack)
         f == Top(inv)
     IN /\ ~f.isH /\ f.pc = "io" /\ MwKind(f.unit) = "wait"
        /\ LET new == Run(CallNext([inv EXCEPT !.stack[n].pc = "await",
                                                !.stack[n].nexts = 1],
                                    f.pos, f.env))
           IN /\ invs' = InvsAfter(i, new)
              /\ calls' = CallsAfter(i, new)
  /\ UNCHANGED <<impl, registry, nextId, lastOp, nRegs>>

\* (TimerFiresAndCancels: a timeout that also abandons the chain's calls.)
TimerFiresAndCancels(i) ==
  /\ invs[i].timer = "pending"
  /\ LET inv == invs[i]
         new == [inv EXCEPT !.timer = "fired", !.stack = <<>>,
                   !.raceOut = IF @.st = "pending"
                                 THEN Fail(Timeout(inv.env.type, inv.timeoutMs))
                                 ELSE @]
     IN /\ invs' = InvsAfter(i, new)
        /\ calls' = CallsAfter(i, new)
  /\ UNCHANGED <<impl, registry, nextId, lastOp, nRegs>>

\* (TimerFiresUnheard: the timer fires and rejects nothing.)
TimerFiresUnheard(i) ==
  /\ invs[i].timer = "pending"
  /\ invs' = [invs EXCEPT ![i].timer = "fired"]
  /\ UNCHANGED <<impl, registry, nextId, calls, lastOp, nRegs>>

\* withTimeout's timer fires: the race rejects unless the chain settled first.
TimerFires(i) ==
  /\ invs[i].timer = "pending"
  /\ LET inv == invs[i]
         new == [inv EXCEPT !.timer = "fired",
                   !.raceOut = IF @.st = "pending"
                                 THEN Fail(Timeout(inv.env.type, inv.timeoutMs))
                                 ELSE @]
     IN /\ invs' = InvsAfter(i, new)
        /\ calls' = CallsAfter(i, new)
  /\ UNCHANGED <<impl, registry, nextId, lastOp, nRegs>>

\* ------------------------------------------------------------ specification
Next ==
  \/ \E m \in Middleware : use(m)
  \/ \E t \in Types, h \in Handlers : registerCommandHandler(t, h)
  \/ \E t \in Types, h \in Handlers : registerQueryHandler(t, h)
  \/ \E t \in Types, h \in Handlers : registerEventHandler(t, h)
  \/ clear
  \/ \E t \in Dispatched, in \in Inputs : executeCommand(t, in)
  \/ \E t \in Dispatched, in \in Inputs : executeQuery(t, in)
  \/ \E t \in Dispatched, in \in Inputs : publishEvent(t, in)
  \/ \E t \in Dispatched, in \in Inputs : CommandExecute(t, in)
  \/ \E t \in Dispatched, in \in Inputs : QueryExecute(t, in)
  \/ \E i \in 1..Len(invs) : HandlerSettle(i)
  \/ \E i \in 1..Len(invs) : MwSettle(i)
  \/ \E i \in 1..Len(invs) : TimerFires(i)

Spec == Init /\ [][Next]_vars

TypeOK ==
  /\ impl \in Impls
  /\ Len(middlewares) <= maxMiddleware
  /\ Len(invs) <= MaxInvs /\ OpsMade <= MaxOps
  /\ \A i \in 1..Len(invs) :
       /\ invs[i].timer \in {"pending", "fired", "cleared"}
       /\ invs[i].stack # <<>> => Top(invs[i]).pc \in {"io", "hung"}

\* ------------------------------------------------------------ properties
Last(q) == q[Len(q)]

\* The observation sequence of the onion: every middleware's pre-logic in
\* registration order, the handler, every post-logic in reverse order.
Onion(mws, h, env) ==
  LET n == Len(mws)
  IN [k \in 1..(2 * n + 1) |->
        IF k <= n THEN [ph |-> "before", unit |-> mws[k], env |-> env]
        ELSE IF k = n + 1 THEN [ph |-> "handle", unit |-> h, env |-> env]
        ELSE [ph |-> "after", unit |-> mws[2 * n + 2 - k], env |-> env]]

AllPass(mws) == \A k \in 1..Len(mws) : MwKind(mws[k]) = "pass"

\* C1 Chain ordering: a successful executeCommand/executeQuery whose
\* middleware each call their continuation once has observed exactly
\* m0-before, ..., mn-1-before, H, mn-1-after, ..., m0-after, for the
\* middleware list registered when the call was made.
ChainOrdering ==
  \A c \in 1..Len(calls) :
    LET call == calls[c]
    IN (/\ call.kind \in {"command", "query"}
        /\ call.outcome.st = "ok"
        /\ AllPass(call.mws))
       => invs[call.invs[1]].log = Onion(call.mws, call.handlers[1], call.env)

ChainOrderingWitness ==
  \E c \in 1..Len(calls) :
    /\ calls[c].kind = "command"
    /\ calls[c].outcome.st = "ok"
    /\ calls[c].mws = <<"mA", "mB">>
    /\ Len(invs[calls[c].invs[1]].log) = 5

\* C2 Single-owner registration: registering a command (query) handler for a
\* type that already has one fails with DuplicateRegistration and leaves the
\* registry unchanged; no step replaces a bound handler by another one; a
\* dispatch to the type takes the handler that is bound, and only the handler
\* the dispatch looked up is ever invoked for it.
SingleOwnerStep ==
  \A t \in Types :
    /\ \A h2 \in Handlers :
         (commandHandlers[t] # NoHandler /\ registerCommandHandler(t, h2))
           => /\ lastOp' = [st |-> "fail",
                            val |-> <<"DuplicateRegistration", "command", t>>]
              /\ UNCHANGED registry
    /\ \A h2 \in Handlers :
         (queryHandlers[t] # NoHandler /\ registerQueryHandler(t, h2))
           => /\ lastOp' = [st |-> "fail",
                            val |-> <<"DuplicateRegistration", "query", t>>]
              /\ UNCHANGED registry
    /\ commandHandlers[t] # NoHandler
         => commandHandlers'[t] \in {commandHandlers[t], NoHandler}
    /\ queryHandlers[t] # NoHandler
         => queryHandlers'[t] \in {queryHandlers[t], NoHandler}
    /\ \A in \in Inputs :
         (commandHandlers[t] # NoHandler /\ executeCommand(t, in))
           => Last(invs').handler = commandHandlers[t]
    /\ \A in \in Inputs :
         (queryHandlers[t] # NoHandler /\ executeQuery(t, in))
           => Last(invs').handler = queryHandlers[t]

OnlyBoundHandlerRuns ==
  \A i \in 1..Len(invs) :
    \A k \in 1..Len(invs[i].log) :
      invs[i].log[k].ph = "handle" => invs[i].log[k].unit = invs[i].handler

SingleOwner == [][SingleOwnerStep]_vars /\ []OnlyBoundHandlerRuns

\* h1 bound for T1, the registration of h2 refused, and a command of type
\* T1 answered by h1.
SingleOwnerWitness ==
  /\ lastOp = [st |-> "fail", val |-> <<"DuplicateRegistration", "command", "T1">>]
  /\ nRegs = 2
  /\ commandHandlers["T1"] = "h1"
  /\ \E c \in 1..Len(calls) :
       /\ calls[c].kind = "command" /\ calls[c].type = "T1"
       /\ calls[c].outcome.st = "ok"
       /\ calls[c].outcome.val[2] = "h1"

\* C3 Missing handler: executeCommand(X) (executeQuery(X)) with no handler
\* bound for X fails with HandlerNotFound naming X and the kind; no
\* middleware and no handler is invoked and the registry is unchanged.
MissingHandlerStep ==
  \A t \in Types, in \in Inputs :
    /\ (commandHandlers[t] = NoHandler /\ executeCommand(t, in))
         => /\ Last(calls').outcome =
                 [st |-> "fail", val |-> <<"HandlerNotFound", "command", t>>]
            /\ Last(calls').invs = <<>>
            /\ invs' = invs
            /\ UNCHANGED registry
    /\ (queryHandlers[t] = NoHandler /\ executeQuery(t, in))
         => /\ Last(calls').outcome =
                 [st |-> "fail", val |-> <<"HandlerNotFound", "query", t>>]
            /\ Last(calls').invs = <<>>
            /\ invs' = invs
            /\ UNCHANGED registry

NotFoundRunsNothing ==
  \A c \in 1..Len(calls) :
    (calls[c].outcome.st = "fail" /\ calls[c].outcome.val[1] = "HandlerNotFound")
      => /\ calls[c].invs = <<>>
         /\ calls[c].kind \in {"command", "query"}
         /\ calls[c].outcome.val = <<"HandlerNotFound", calls[c].kind, calls[c].type>>
         /\ \A i \in 1..Len(invs) : invs[i].call # c

MissingHandler == [][MissingHandlerStep]_vars /\ []NotFoundRunsNothing

\* A command for T1 is refused while T2 has a command handler, T1 has a query
\* handler and a middleware is registered.
MissingHandlerWitness ==
  /\ calls # <<>>
  /\ Last(calls).outcome =
       [st |-> "fail", val |-> <<"HandlerNotFound", "command", "T1">>]
  /\ commandHandlers["T2"] # NoHandler
  /\ queryHandlers["T1"] # NoHandler
  /\ middlewares # <<>>

\* The chain of an invocation has not settled: its handler or one of its
\* middleware is still waiting.
Unsettled(inv) == inv.chainOut.st = "pending"

ConfiguredTimeout(kind) == IF kind = "query" THEN queryTimeout ELSE commandTimeout

TimeoutOf(call) ==
  [st |-> "fail", val |-> <<"Timeout", call.type, ConfiguredTimeout(call.kind)>>]

\* C4 Timeout: as long as the handler or a middleware of an executeCommand /
\* executeQuery call has not settled, a timer for the call is armed; the
\* call is pending until it fires, and once it has fired (the configured
\* duration has elapsed) the call has failed with Timeout naming the message
\* type and the configured duration.
TimeoutOnHang ==
  \A c \in 1..Len(calls) :
    LET call == calls[c]
    IN (/\ call.kind \in {"command", "query"}
        /\ call.invs # <<>>
        /\ Unsettled(invs[call.invs[1]]))
       => LET inv == invs[call.invs[1]]
          IN /\ inv.timer \in {"pending", "fired"}
             /\ inv.timer = "pending" => call.outcome.st = "pending"
             /\ inv.timer = "fired" => call.outcome = TimeoutOf(call)

\* A query whose handler, reached through a middleware, has not settled
\* has timed out.
TimeoutOnHangWitness ==
  \E c \in 1..Len(calls) :
    /\ calls[c].kind = "query"
    /\ calls[c].invs # <<>>
    /\ Unsettled(invs[calls[c].invs[1]])
    /\ Top(invs[calls[c].invs[1]]).isH
    /\ Top(invs[calls[c].invs[1]]).pc = "io"
    /\ Len(invs[calls[c].invs[1]].stack) = 2
    /\ calls[c].outcome = [st |-> "fail", val |-> <<"Timeout", calls[c].type, 10000>>]

\* C5 First to settle wins: the race of an invocation has the outcome of
\* whichever of chain and timer settled first; an outcome, once delivered
\* to the race or to the caller, never changes; a command or query call has
\* the outcome of its race.
RaceFirst ==
  \A i \in 1..Len(invs) :
    LET inv == invs[i]
        call == calls[inv.call]
    IN /\ (inv.chainOut.st # "pending" /\ inv.timer # "fired")
            => inv.raceOut = inv.chainOut
       /\ (inv.chainOut.st = "pending" /\ inv.timer = "fired")
            => inv.raceOut = TimeoutOf(call)
       /\ (inv.chainOut.st = "pending" /\ inv.timer # "fired")
            => inv.raceOut.st = "pending"
       /\ inv.raceOut.st # "pending"
            => inv.raceOut \in {inv.chainOut, TimeoutOf(call)}
       /\ call.kind \in {"command", "query"} => call.outcome = inv.raceOut

OutcomeStable ==
  /\ \A c \in 1..Len(calls) :
       calls[c].outcome.st # "pending" => calls'[c].outcome = calls[c].outcome
  /\ \A i \in 1..Len(invs) :
       invs[i].raceOut.st # "pending" => invs'[i].raceOut = invs[i].raceOut

FirstToSettleWins == [][OutcomeStable]_vars /\ []RaceFirst

\* One invocation whose chain succeeded after its timeout had been
\* delivered, and one whose timer fired after its chain's result had been.
FirstToSettleWinsWitness ==
  /\ \E i \in 1..Len(invs) :
       /\ invs[i].raceOut.st = "fail" /\ invs[i].raceOut.val[1] = "Timeout"
       /\ invs[i].chainOut.st = "ok"
  /\ \E j \in 1..Len(invs) :
       /\ invs[j].raceOut.st = "ok"
       /\ invs[j].timer = "fired"

TimedOut(inv) == inv.raceOut.st = "fail" /\ inv.raceOut.val[1] = "Timeout"

\* C6 No cancellation on timeout: the timer's firing leaves the chain's
\* calls in progress as they are; after the invocation has failed with
\* Timeout its handler can still settle, and when it does the chain runs to
\* its completion or failure, the post-phases of the middleware included.
TimerLeavesChain ==
  \A i \in 1..Len(invs) :
    /\ TimerFires(i) => /\ invs'[i].stack = invs[i].stack
                        /\ invs'[i].log = invs[i].log
                        /\ invs'[i].chainOut = invs[i].chainOut
    /\ (TimedOut(invs[i]) /\ HandlerSettle(i))
         => /\ invs'[i] # invs[i]
            /\ AllPass(calls[invs[i].call].mws)
                 => /\ invs'[i].stack = <<>>
                    /\ invs'[i].chainOut.st # "pending"
                    /\ invs'[i].chainOut.st = "ok"
                         => Len(invs'[i].log) = 2 * Len(invs[i].stack) - 1

RunsOnAfterTimeout ==
  \A i \in 1..Len(invs) :
    (TimedOut(invs[i]) /\ invs[i].stack # <<>> /\ Top(invs[i]).pc = "io")
      => IF Top(invs[i]).isH THEN ENABLED HandlerSettle(i)
         ELSE ENABLED MwSettle(i)

NoCancellation == [][TimerLeavesChain]_vars /\ []RunsOnAfterTimeout

\* A command timed out, and afterwards its handler and both middleware
\* post-phases ran to completion.
NoCancellationWitness ==
  \E i \in 1..Len(invs) :
    /\ TimedOut(invs[i])
    /\ invs[i].chainOut.st = "ok"
    /\ Len(invs[i].log) = 5
    /\ invs[i].log[5].ph = "after"

Handled(log) == SelectSeq(log, LAMBDA e : e.ph = "handle")

\* C7 Multi-subscriber fan-out: publishEvent starts one invocation for each
\* of the k handlers registered for the type, in registration order and all
\* with the one envelope built from the caller's arguments; once the publish
\* call has returned its promise, every handler has been invoked, and with
\* pass-through middleware exactly once, with that envelope.
FanOutStep ==
  \A t \in Types, in \in Inputs :
    publishEvent(t, in)
      => LET call == Last(calls')
         IN /\ call.handlers = eventHandlers[t]
            /\ call.env.type = t
            /\ call.env.data = in.data
            /\ call.env.aggregateId = in.aggregateId
            /\ call.env.version = in.version
            /\ call.env.metadata = in.metadata
            /\ Len(call.invs) = Len(eventHandlers[t])

FanOutAll ==
  \A c \in 1..Len(calls) :
    LET call == calls[c]
    IN call.kind = "event"
       => /\ Len(call.invs) = Len(call.handlers)
          /\ \A k \in 1..Len(call.invs) :
               LET inv == invs[call.invs[k]]
               IN /\ inv.handler = call.handlers[k]
                  /\ inv.call = c
                  /\ \A e \in 1..Len(inv.log) : inv.log[e].env = call.env
                  /\ inv.log # <<>>
                  /\ AllPass(call.mws)
                       => Handled(inv.log) =
                            <<[ph |-> "handle", unit |-> call.handlers[k],
                               env |-> call.env]>>

FanOut == [][FanOutStep]_vars /\ []FanOutAll

\* Two different handlers of one event type have both been invoked, behind
\* a middleware, with the caller's arguments.
FanOutWitness ==
  \E c \in 1..Len(calls) :
    /\ calls[c].kind = "event"
    /\ calls[c].handlers = <<"h2", "h1">>
    /\ calls[c].mws = <<"mA">>
    /\ calls[c].env.data = "d1"
    /\ \A k \in 1..2 : Len(Handled(invs[calls[c].invs[k]].log)) = 1

\* C8 Zero-subscriber publish: publishEvent(Y) with no handler registered
\* for Y resolves successfully at once, starts no invocation (no middleware,
\* no handler) and leaves the registry unchanged.
ZeroSubscriberStep ==
  \A t \in Types, in \in Inputs :
    (eventHandlers[t] = <<>> /\ publishEvent(t, in))
      => /\ Last(calls').outcome = [st |-> "ok", val |-> <<>>]
         /\ Last(calls').invs = <<>>
         /\ invs' = invs
         /\ UNCHANGED registry

ZeroSubscriberQuiet ==
  \A c \in 1..Len(calls) :
    (calls[c].kind = "event" /\ calls[c].handlers = <<>>)
      => /\ calls[c].outcome = [st |-> "ok", val |-> <<>>]
         /\ calls[c].invs = <<>>
         /\ \A i \in 1..Len(invs) : invs[i].call # c

ZeroSubscriber == [][ZeroSubscriberStep]_vars /\ []ZeroSubscriberQuiet

\* An event of type T1 was published to nobody while T2 has a subscriber,
\* T1 has a command handler and a middleware is registered.
ZeroSubscriberWitness ==
  /\ calls # <<>>
  /\ Last(calls).kind = "event"
  /\ Last(calls).type = "T1"
  /\ Last(calls).outcome.st = "ok"
  /\ Last(calls).invs = <<>>
  /\ eventHandlers["T2"] # <<>>
  /\ commandHandlers["T1"] # NoHandler
  /\ middlewares # <<>>

\* C9 publishEvent with k >= 1 handlers has succeeded exactly when all k
\* invocations have; as soon as one invocation fails the call fails, with
\* the error of the invocation that failed first in time.
PublishAll ==
  \A c \in 1..Len(calls) :
    LET call == calls[c]
        K == 1..Len(call.invs)
    IN (call.kind = "event" /\ call.invs # <<>>)
       => /\ call.outcome.st = "ok"
               <=> \A k \in K : invs[call.invs[k]].raceOut.st = "ok"
          /\ call.outcome.st = "fail"
               <=> \E k \in K : invs[call.invs[k]].raceOut.st = "fail"
          /\ call.outcome.st = "fail"
               => \E k \in K : invs[call.invs[k]].raceOut = call.outcome

FirstFailureStep ==
  \A c \in 1..Len(calls) :
    (calls[c].kind = "event" /\ calls[c].invs # <<>>)
      => /\ \A k \in 1..Len(calls[c].invs) :
              LET i == calls[c].invs[k]
              IN (/\ calls[c].outcome.st = "pending"
                  /\ invs[i].raceOut.st = "pending"
                  /\ invs'[i].raceOut.st = "fail")
                 => calls'[c].outcome = invs'[i].raceOut
         /\ calls[c].outcome.st = "fail"
              => calls'[c].outcome = calls[c].outcome

PublishFailsFirst == [][FirstFailureStep]_vars /\ []PublishAll

\* Both handlers failed, with different errors, and the publish failed with
\* the error of the handler registered second.
PublishFailsFirstWitness ==
  \E c \in 1..Len(calls) :
    /\ calls[c].kind = "event"
    /\ Len(calls[c].invs) = 2
    /\ invs[calls[c].invs[1]].raceOut.st = "fail"
    /\ invs[calls[c].invs[2]].raceOut.st = "fail"
    /\ invs[calls[c].invs[1]].raceOut # invs[calls[c].invs[2]].raceOut
    /\ calls[c].outcome = invs[calls[c].invs[2]].raceOut

\* C10 In a fan-out the failure of one invocation leaves its siblings as
\* they are: after the publish has failed, a sibling's handler can still
\* settle, and what the siblings do later changes nothing in the call's
\* record.
SiblingsStep ==
  /\ \A i \in 1..Len(invs) :
       (invs[i].raceOut.st = "pending" /\ invs'[i].raceOut.st = "fail")
         => \A j \in 1..Len(invs) : j # i => invs'[j] = invs[j]
  /\ \A c \in 1..Len(calls) :
       (calls[c].kind = "event" /\ calls[c].outcome.st = "fail")
         => calls'[c] = calls[c]

SiblingsRunOn ==
  \A c \in 1..Len(calls) :
    (calls[c].kind = "event" /\ calls[c].outcome.st = "fail")
      => \A k \in 1..Len(calls[c].invs) :
           LET i == calls[c].invs[k]
           IN (invs[i].stack # <<>> /\ Top(invs[i]).pc = "io")
                => IF Top(invs[i]).isH THEN ENABLED HandlerSettle(i)
                   ELSE ENABLED MwSettle(i)

SiblingsNotCancelled == [][SiblingsStep]_vars /\ []SiblingsRunOn

\* The publish has failed with the first handler's own error while the
\* second handler is still in flight.
SiblingsNotCancelledWitness ==
  \E c \in 1..Len(calls) :
    /\ calls[c].kind = "event"
    /\ Len(calls[c].invs) = 2
    /\ calls[c].outcome.st = "fail"
    /\ calls[c].outcome.val[1] = "HandlerFailure"
    /\ calls[c].outcome = invs[calls[c].invs[1]].raceOut
    /\ invs[calls[c].invs[2]].stack # <<>>
    /\ Top(invs[calls[c].invs[2]]).isH
    /\ Top(invs[calls[c].invs[2]]).pc = "io"

\* C11 use(middleware) appends the middleware at the end of the list while
\* the list holds fewer than the configured maximum; at the maximum it fails
\* with MiddlewareLimitExceeded and the list is as it was.  The handler
\* registries are untouched either way, and the list never exceeds the
\* maximum.
UseStep ==
  \A m \in Middleware :
    use(m)
      => /\ Len(middlewares) < maxMiddleware
              => /\ middlewares' = middlewares \o <<m>>
                 /\ lastOp' = [st |-> "ok", val |-> <<>>]
         /\ Len(middlewares) >= maxMiddleware
              => /\ middlewares' = middlewares
                 /\ lastOp' = [st |-> "fail",
                               val |-> <<"MiddlewareLimitExceeded", maxMiddleware>>]
         /\ UNCHANGED <<commandHandlers, queryHandlers, eventHandlers>>

WithinCap == Len(middlewares) <= maxMiddleware

UseCap == [][UseStep]_vars /\ []WithinCap

\* The list is full and a further use() has just been refused.
UseCapWitness ==
  /\ Len(middlewares) = maxMiddleware
  /\ lastOp = [st |-> "fail", val |-> <<"MiddlewareLimitExceeded", maxMiddleware>>]
  /\ nRegs = maxMiddleware + 1

\* Nothing is registered: no command, query or event handler, no middleware.
BusEmpty ==
  /\ \A t \in Types : /\ commandHandlers[t] = "none"
                      /\ queryHandlers[t] = "none"
                      /\ eventHandlers[t] = <<>>
  /\ middlewares = <<>>

\* C12 clear() leaves the bus empty in one step and can be called in any
\* state; the empty bus is usable: a registration of any command or query
\* type and a use() succeed on it, and a command or query dispatched to it
\* fails with HandlerNotFound.
ClearStep ==
  /\ clear => /\ BusEmpty'
              /\ lastOp' = [st |-> "ok", val |-> <<>>]
              /\ UNCHANGED <<calls, invs>>
  /\ BusEmpty =>
       /\ \A t \in Types, h \in Handlers :
            /\ registerCommandHandler(t, h)
                 => commandHandlers'[t] = h /\ lastOp'.st = "ok"
            /\ registerQueryHandler(t, h)
                 => queryHandlers'[t] = h /\ lastOp'.st = "ok"
       /\ \A m \in Middleware :
            use(m) => middlewares' = <<m>> /\ lastOp'.st = "ok"
       /\ \A t \in Types, in \in Inputs :
            /\ executeCommand(t, in)
                 => calls'[Len(calls')].outcome =
                      [st |-> "fail", val |-> <<"HandlerNotFound", "command", t>>]
            /\ executeQuery(t, in)
                 => calls'[Len(calls')].outcome =
                      [st |-> "fail", val |-> <<"HandlerNotFound", "query", t>>]

ClearAnywhere == OpsMade < MaxOps => ENABLED clear

ClearEmpties == [][ClearStep]_vars /\ []ClearAnywhere

\* A command type that was bound to h1 when a command was dispatched to it
\* is now bound to h2: the bus was cleared in between and the type was
\* registered again.
ClearEmptiesWitness ==
  \E c \in 1..Len(calls) :
    /\ calls[c].kind = "command"
    /\ calls[c].handlers = <<"h1">>
    /\ commandHandlers[calls[c].type] = "h2"
    /\ lastOp.st = "ok"

\* C13 getStats() counts the bound command types, the bound query types,
\* the event handler bindings summed over all event types and the
\* middleware: every successful registration or use() adds one to its
\* count, a failed one adds nothing, clear() sets all counts to 0, and no
\* other step changes a count.
StatsStep ==
  LET s == getStats
      t == getStats'
      ok == lastOp'.st = "ok"
  IN IF nRegs' = nRegs THEN (UNCHANGED registry \/ t = s)
     ELSE
       /\ (\E x \in Types, h \in Handlers : registerCommandHandler(x, h))
            => t = [s EXCEPT !.commandHandlers = @ + (IF ok THEN 1 ELSE 0),
                             !.totalHandlers = @ + (IF ok THEN 1 ELSE 0)]
       /\ (\E x \in Types, h \in Handlers : registerQueryHandler(x, h))
            => t = [s EXCEPT !.queryHandlers = @ + (IF ok THEN 1 ELSE 0),
                             !.totalHandlers = @ + (IF ok THEN 1 ELSE 0)]
       /\ (\E x \in Types, h \in Handlers : registerEventHandler(x, h))
            => t = [s EXCEPT !.eventHandlers = @ + 1, !.totalHandlers = @ + 1]
       /\ (\E m \in Middleware : use(m))
            => t = [s EXCEPT !.middleware = @ + (IF ok THEN 1 ELSE 0)]
       /\ clear
            => t = [commandHandlers |-> 0, queryHandlers |-> 0,
                    eventHandlers |-> 0, middleware |-> 0, totalHandlers |-> 0]

StatsCount ==
  \A s \in {getStats} :
    /\ s.commandHandlers =
         Cardinality({x \in Types : commandHandlers[x] \in Handlers})
    /\ s.queryHandlers =
         Cardinality({x \in Types : queryHandlers[x] \in Handlers})
    /\ s.eventHandlers =
         Cardinality({b \in Types \X (1..MaxOps) : b[2] <= Len(eventHandlers[b[1]])})
    /\ s.middleware = Len(middlewares)
    /\ BusEmpty => s.totalHandlers = 0

Stats == [][StatsStep]_vars /\ []StatsCount

\* Two handlers of one event type and a command type whose second
\* registration was refused: two event handlers and one command handler.
StatsWitness ==
  /\ Len(eventHandlers["T1"]) = 2 /\ eventHandlers["T2"] = <<>>
  /\ lastOp = [st |-> "fail", val |-> <<"DuplicateRegistration", "command", "T1">>]
  /\ getStats.eventHandlers = 2
  /\ getStats.commandHandlers = 1

\* The list q names exactly the members of S, each once.
ListsOnce(q, S) ==
  /\ {q[k] : k \in 1..Len(q)} = S
  /\ \A j, k \in 1..Len(q) : q[j] = q[k] => j = k

\* C14 getRegisteredHandlers() lists exactly the command types, the query
\* types and the event types that have a handler, each type once, however
\* many registrations were refused for it and however many handlers an
\* event type has.
RegisteredHandlers ==
  /\ ListsOnce(getRegisteredHandlers.commands,
               {t \in Types : commandHandlers[t] \in Handlers})
  /\ ListsOnce(getRegisteredHandlers.queries,
               {t \in Types : queryHandlers[t] \in Handlers})
  /\ ListsOnce(getRegisteredHandlers.events,
               {t \in Types : Len(eventHandlers[t]) >= 1})

\* A command type registered once and refused a second time, and an event
\* type with two handlers: each is listed once.
RegisteredHandlersWitness ==
  /\ lastOp = [st |-> "fail", val |-> <<"DuplicateRegistration", "command", "T2">>]
  /\ getRegisteredHandlers.commands = <<"T2">>
  /\ Len(eventHandlers["T1"]) = 2
  /\ getRegisteredHandlers.events = <<"T1">>

\* The first middleware of mws that never invokes its continuation, 0 when
\* every middleware of mws does.
FirstStop(mws) ==
  IF \E k \in 1..Len(mws) : MwKind(mws[k]) \in {"short", "hang"}
    THEN CHOOSE k \in 1..Len(mws) :
           /\ MwKind(mws[k]) \in {"short", "hang"}
           /\ \A j \in 1..(k - 1) : MwKind(mws[j]) \notin {"short", "hang"}
    ELSE 0

Entered(log) == SelectSeq(log, LAMBDA e : e.ph = "before")

\* C15 Short-circuit: when a middleware mi of a dispatch does not invoke its
\* continuation, the handler is never invoked for that dispatch, no
\* middleware other than mi and those registered before it is entered, the
\* chain settles with nothing but what mi returned or threw, and that is
\* what a command or query caller gets unless the timeout came first.
ShortCircuit ==
  \A i \in 1..Len(invs) :
    LET inv == invs[i]
        call == calls[inv.call]
        k == FirstStop(call.mws)
    IN k > 0 =>
         /\ Handled(inv.log) = <<>>
         /\ \A e \in 1..Len(Entered(inv.log)) :
              \E j \in 1..k : Entered(inv.log)[e].unit = call.mws[j]
         /\ inv.chainOut \in
              {[st |-> "pending", val |-> <<>>],
               [st |-> "ok",
                val |-> <<"result", call.mws[k], inv.env.id, inv.env.data>>],
               [st |-> "fail",
                val |-> <<"MiddlewareFailure", call.mws[k], inv.env.id>>]}
         /\ (call.kind # "event" /\ call.outcome.st # "pending"
               /\ ~TimedOut(inv))
              => call.outcome = inv.chainOut

\* A command went through a passing middleware into a short-circuiting one,
\* which threw: the caller has that failure and the handler never ran.
ShortCircuitWitness ==
  \E c \in 1..Len(calls) :
    /\ calls[c].kind = "command"
    /\ calls[c].mws = <<"mA", "mShort">>
    /\ calls[c].outcome = [st |-> "fail",
                           val |-> <<"MiddlewareFailure", "mShort",
                                     calls[c].env.id>>]
    /\ Len(invs[calls[c].invs[1]].log) = 2

\* The position of the retrying middleware of mws when mws has exactly one
\* and every other middleware passes; 0 otherwise.
OneRetry(mws) ==
  IF /\ \E k \in 1..Len(mws) : MwKind(mws[k]) = "retry"
     /\ \A j, k \in 1..Len(mws) :
          (MwKind(mws[j]) = "retry" /\ MwKind(mws[k]) = "retry") => j = k
     /\ \A k \in 1..Len(mws) : MwKind(mws[k]) \in {"pass", "retry"}
    THEN CHOOSE k \in 1..Len(mws) : MwKind(mws[k]) = "retry"
    ELSE 0

\* What one call of the continuation of the middleware at position k of mws
\* is to observe on the way in: mk+1, ..., mn-1 entered, then the handler.
RestOfChain(mws, k, h, env) ==
  [j \in 1..(Len(mws) - k + 1) |->
     IF k + j <= Len(mws)
       THEN [ph |-> "before", unit |-> mws[k + j], env |-> env]
       ELSE [ph |-> "handle", unit |-> h, env |-> env]]

\* Every call in progress is the call its caller's continuation is bound
\* to: the j-th call of a chain is the j-th middleware registered at
\* dispatch, and the one after the last middleware is the handler.
BoundToNext ==
  \A i \in 1..Len(invs) :
    LET inv == invs[i]
        mws == calls[inv.call].mws
    IN \A j \in 1..Len(inv.stack) :
         IF j <= Len(mws)
           THEN ~inv.stack[j].isH /\ inv.stack[j].unit = mws[j]
           ELSE /\ j = Len(mws) + 1
                /\ inv.stack[j].isH /\ inv.stack[j].unit = inv.handler

\* The second call a middleware makes of its continuation runs the rest of
\* the chain again, as the first did.
SecondCallRunsRest ==
  \A i \in 1..Len(invs) :
    LET inv == invs[i]
        mws == calls[inv.call].mws
        n == Len(mws)
        k == OneRetry(mws)
    IN k > 0 =>
         /\ Len(inv.log) >= n + 1
         /\ SubSeq(inv.log, 1, n + 1) = RestOfChain(mws, 0, inv.handler, inv.env)
         /\ (Len(inv.log) > n + 1 /\ inv.log[n + 2].ph # "after")
              => /\ Len(inv.log) >= 2 * n - k + 2
                 /\ SubSeq(inv.log, n + 2, 2 * n - k + 2)
                      = RestOfChain(mws, k, inv.handler, inv.env)

\* C16 Continuation binding: the continuation a middleware mi receives is
\* bound to mi+1, or to the handler when mi is the last; the binding is the
\* same on every call, so a middleware that calls its continuation a second
\* time runs mi+1, ..., mn-1 and the handler a second time.
ContinuationBinding == BoundToNext /\ SecondCallRunsRest

\* A retrying middleware in front of a passing one called its continuation
\* twice, the handler failing the first time: the passing middleware and
\* the handler each ran twice and the call succeeded.
ContinuationBindingWitness ==
  \E c \in 1..Len(calls) :
    /\ calls[c].mws = <<"mRetry", "mA">>
    /\ calls[c].kind = "command"
    /\ calls[c].outcome.st = "ok"
    /\ Len(Handled(invs[calls[c].invs[1]].log)) = 2
    /\ Len(Entered(invs[calls[c].invs[1]].log)) = 3

\* A dispatch runs the middleware registered when it is made: each chain it
\* starts enters the first middleware of the current list and none that is
\* not in the list.
DispatchUsesCurrent ==
  Len(calls') > Len(calls) =>
    \A i \in (Len(invs) + 1)..Len(invs') :
      /\ \A e \in 1..Len(Entered(invs'[i].log)) :
           \E j \in 1..Len(middlewares) :
             Entered(invs'[i].log)[e].unit = middlewares[j]
      /\ middlewares # <<>> =>
           /\ invs'[i].log # <<>>
           /\ invs'[i].log[1] = [ph |-> "before", unit |-> middlewares[1],
                                 env |-> invs'[i].env]

\* Whatever is registered or cleared while a dispatch is in flight, the
\* dispatch enters only middleware of the list it was made with.
EntersOnlySnapshot ==
  \A i \in 1..Len(invs) :
    LET mws == calls[invs[i].call].mws
    IN \A e \in 1..Len(Entered(invs[i].log)) :
         \E j \in 1..Len(mws) : Entered(invs[i].log)[e].unit = mws[j]

\* C17 Call-time snapshot: a dispatch uses the middleware list as it is
\* when the dispatch call is made; a middleware registered with use() while
\* the dispatch is suspended at an await is not run by it and takes part
\* only in dispatches started afterwards.
CallTimeSnapshot == [][DispatchUsesCurrent]_vars /\ []EntersOnlySnapshot

\* A dispatch made with the retrying middleware alone was suspended in its
\* handler when mA was registered; the handler then failed and was retried,
\* and the dispatch has entered nothing but the retrying middleware.
CallTimeSnapshotWitness ==
  \E c \in 1..Len(calls) :
    /\ calls[c].mws = <<"mRetry">>
    /\ middlewares = <<"mRetry", "mA">>
    /\ calls[c].invs # <<>>
    /\ Len(Handled(invs[calls[c].invs[1]].log)) = 2
    /\ Len(Entered(invs[calls[c].invs[1]].log)) = 1

\* The errors the handler and the middleware of invocation inv raise.
Raised(inv) ==
  {<<"HandlerFailure", inv.handler, inv.env.id>>}
    \cup {<<"MiddlewareFailure", m, inv.env.id>> : m \in Middleware}

\* A chain that fails fails with an error its handler or one of its
\* middleware raised; when every middleware passes, with the handler's.
ExactFailure ==
  \A i \in 1..Len(invs) :
    LET inv == invs[i]
    IN inv.chainOut.st = "fail" =>
         /\ inv.chainOut.val \in Raised(inv)
         /\ AllPass(calls[inv.call].mws)
              => inv.chainOut.val = <<"HandlerFailure", inv.handler, inv.env.id>>

\* The failure of a chain is the failure of its call unless the timeout or,
\* for an event, another handler's failure came first: a failed call has
\* HandlerNotFound, a Timeout, or the very error one of its chains failed
\* with, and a command or query whose chain failed in time has failed.
CallerGetsE ==
  \A c \in 1..Len(calls) :
    LET call == calls[c]
    IN /\ (call.outcome.st = "fail"
             /\ call.outcome.val[1] \notin {"HandlerNotFound", "Timeout"})
            => \E k \in 1..Len(call.invs) :
                 /\ invs[call.invs[k]].chainOut = call.outcome
                 /\ call.outcome.val \in Raised(invs[call.invs[k]])
       /\ \A k \in 1..Len(call.invs) :
            LET inv == invs[call.invs[k]]
            IN (inv.chainOut.st = "fail" /\ ~TimedOut(inv))
                 => /\ call.outcome.st = "fail"
                    /\ call.kind # "event" => call.outcome = inv.chainOut

\* C18 Failure propagation: an error E raised by the handler or by a
\* middleware, which the enclosing middleware let propagate, is what
\* executeCommand, executeQuery or publishEvent fails with: E itself, not
\* wrapped, replaced or swallowed.
FailurePropagation == ExactFailure /\ CallerGetsE

\* A command behind two passing middleware has failed with its handler's
\* own error: both middleware were entered, the handler ran and threw, and
\* neither middleware reached its post-logic.
FailurePropagationWitness ==
  \E c \in 1..Len(calls) :
    /\ calls[c].kind = "command"
    /\ Len(calls[c].handlers) = 1
    /\ Len(calls[c].mws) = 2 /\ AllPass(calls[c].mws)
    /\ calls[c].outcome =
         [st |-> "fail",
          val |-> <<"HandlerFailure", calls[c].handlers[1], calls[c].env.id>>]
    /\ Len(invs[calls[c].invs[1]].log) = 3

\* The call a dispatch step has just added is a call of the given kind for
\* type t carrying the caller's input, handed to handler h alone, which has
\* been invoked with that envelope once every middleware has passed it on.
NewCallCarries(kind, t, in, h) ==
  /\ Len(calls') = Len(calls) + 1
  /\ Len(invs') = Len(invs) + 1
  /\ LET call == calls'[Len(calls')]
         inv == invs'[Len(invs')]
     IN /\ call.kind = kind /\ call.type = t /\ call.env.type = t
        /\ call.env.data = in.data
        /\ call.env.metadata = in.metadata
        /\ kind = "command" => call.env.aggregateId = in.aggregateId
        /\ call.handlers = <<h>> /\ call.invs = <<Len(invs')>>
        /\ inv.handler = h /\ inv.env = call.env
        /\ AllPass(middlewares)
             => Handled(inv.log) = <<[ph |-> "handle", unit |-> h,
                                      env |-> call.env]>>

\* A dispatch to a registered type, made on the bus or through the executor
\* the builder returned, builds the envelope from the caller's arguments
\* and hands it to the handler its own registry binds to the type.
DirectOrExecutor ==
  \A t \in Types, in \in Inputs :
    /\ (executeCommand(t, in) /\ commandHandlers[t] \in Handlers)
         => NewCallCarries("command", t, in, commandHandlers[t])
    /\ CommandExecute(t, in)
         => NewCallCarries("command", t, in, commandHandlers[t])
    /\ (executeQuery(t, in) /\ queryHandlers[t] \in Handlers)
         => NewCallCarries("query", t, in, queryHandlers[t])
    /\ QueryExecute(t, in)
         => NewCallCarries("query", t, in, queryHandlers[t])

\* No handler but the one bound at the dispatch is ever invoked for a
\* command or query, it is invoked with the envelope of the call, and what
\* a successful call returns is that handler's result for that envelope
\* when every middleware the call went through passed it on.
HandlerResultReturned ==
  \A c \in 1..Len(calls) :
    LET call == calls[c]
    IN (call.kind # "event" /\ call.handlers # <<>>) =>
         LET inv == invs[call.invs[1]]
         IN /\ \A e \in 1..Len(Handled(inv.log)) :
                 Handled(inv.log)[e] = [ph |-> "handle",
                                        unit |-> call.handlers[1],
                                        env |-> call.env]
            /\ (call.outcome.st = "ok"
                  /\ \A e \in 1..Len(Entered(inv.log)) :
                       MwKind(Entered(inv.log)[e].unit) \in {"pass", "retry"})
                 => /\ call.outcome.val = <<"result", call.handlers[1],
                                            call.env.id, call.env.data>>
                    /\ Handled(inv.log) # <<>>

\* C19 Envelope and result: executeCommand(T, data, aggregateId, metadata)
\* for a registered T invokes the handler bound to T and no other with an
\* envelope of type T carrying the caller's data, aggregateId and metadata,
\* and returns that handler's result; executeQuery does the same with the
\* caller's params and the query registry; the executors returned by
\* createCommand and createQuery do what the direct calls do.
EnvelopeAndResult == [][DirectOrExecutor]_vars /\ []HandlerResultReturned

\* A command and a query of one type, bound to different handlers, have
\* both returned: each has the result of its own handler for its own
\* envelope.
EnvelopeAndResultWitness ==
  \E c, q \in 1..Len(calls) :
    /\ calls[c].kind = "command" /\ calls[q].kind = "query"
    /\ calls[c].type = calls[q].type
    /\ calls[c].handlers = <<"h1">> /\ calls[q].handlers = <<"h2">>
    /\ calls[c].outcome =
         [st |-> "ok", val |-> <<"result", "h1", calls[c].env.id, "d1">>]
    /\ calls[q].outcome =
         [st |-> "ok", val |-> <<"result", "h2", calls[q].env.id, "d1">>]
    /\ calls[c].env.aggregateId = "a1" /\ calls[c].env.metadata = "meta"

\* A registerEventHandler(t, h) step succeeds, appends h to the list of t
\* and leaves every other list, the other registries and the middleware as
\* they were.
EventRegistrationStep ==
  \A t \in Types, h \in Handlers :
    registerEventHandler(t, h)
      => /\ lastOp' = [st |-> "ok", val |-> <<>>]
         /\ Len(eventHandlers'[t]) = Len(eventHandlers[t]) + 1
         /\ eventHandlers'[t] = eventHandlers[t] \o <<h>>
         /\ \A u \in Types \ {t} : eventHandlers'[u] = eventHandlers[u]
         /\ UNCHANGED <<commandHandlers, queryHandlers, middlewares>>

\* The registration is possible whatever is registered already.
EventRegistrationOpen ==
  OpsMade < MaxOps
    => \A t \in Types, h \in Handlers : ENABLED registerEventHandler(t, h)

\* C20 registerEventHandler(T, h) always succeeds, for any event type T and
\* any handler h, also when T has handlers already or h is among them: the
\* list of T grows by exactly one, h appended at its end (the list is
\* created if absent), and the lists of all other event types are
\* unchanged.
EventRegistration == [][EventRegistrationStep]_vars /\ []EventRegistrationOpen

\* One handler registered twice for one event type, after another type got
\* a handler of its own: the list holds it twice and the other list is as
\* it was.
EventRegistrationWitness ==
  /\ eventHandlers["T1"] = <<"h1", "h1">>
  /\ eventHandlers["T2"] = <<"h2">>
  /\ lastOp = [st |-> "ok", val |-> <<>>]
  /\ nRegs = 3

\* ------------------------------------------------- introspection as calls
\* getStats() called on the bus: the caller gets the counts; lastOp holds
\* what the call returned.
CallGetStats ==
  /\ lastOp' = Ok(<<"stats", getStats>>)
  /\ UNCHANGED <<impl, registry, nRegs>>
  /\ UNCHANGED dispatchVars

\* getRegisteredHandlers() called on the bus: the caller gets three lists
\* built by Array.from(map.keys()).
CallGetRegisteredHandlers ==
  /\ lastOp' = Ok(<<"handlers", getRegisteredHandlers>>)
  /\ UNCHANGED <<impl, registry, nRegs>>
  /\ UNCHANGED dispatchVars

\* (MutateReturnedShared: the events list handed out is the registry's own,
\* so that emptying it empties the event registry.)
MutateReturnedShared ==
  /\ lastOp.st = "ok" /\ lastOp.val # <<>> /\ lastOp.val[1] = "handlers"
  /\ \E f \in {"commands", "queries", "events"} :
       /\ lastOp.val[2][f] # <<>>
       /\ lastOp' = Ok(<<"handlers", [lastOp.val[2] EXCEPT ![f] = <<>>]>>)
       /\ eventHandlers' = IF f = "events" THEN [t \in Types |-> <<>>]
                           ELSE eventHandlers
  /\ UNCHANGED <<impl, commandHandlers, queryHandlers, middlewares, nRegs>>
  /\ UNCHANGED dispatchVars

\* The caller empties one of the lists getRegisteredHandlers() returned
\* (list.length = 0): the lists are arrays made for the caller.
MutateReturned ==
  /\ lastOp.st = "ok" /\ lastOp.val # <<>> /\ lastOp.val[1] = "handlers"
  /\ \E f \in {"commands", "queries", "events"} :
       /\ lastOp.val[2][f] # <<>>
       /\ lastOp' = Ok(<<"handlers", [lastOp.val[2] EXCEPT ![f] = <<>>]>>)
  /\ UNCHANGED <<impl, registry, nRegs>>
  /\ UNCHANGED dispatchVars

\* The bus under registration, clearing and introspection calls.
NextIntrospect ==
  \/ \E m \in Middleware : use(m)
  \/ \E t \in Types, h \in Handlers : registerCommandHandler(t, h)
  \/ \E t \in Types, h \in Handlers : registerQueryHandler(t, h)
  \/ \E t \in Types, h \in Handlers : registerEventHandler(t, h)
  \/ clear
  \/ CallGetStats
  \/ CallGetRegisteredHandlers
  \/ MutateReturned

SpecIntrospect == Init /\ [][NextIntrospect]_vars

\* An introspection call, or a change the caller makes to a list it was
\* handed, leaves the registries and the middleware list as they are, and
\* with them what the next getStats() and getRegisteredHandlers() return.
IntrospectStep ==
  (CallGetStats \/ CallGetRegisteredHandlers \/ MutateReturned)
    => /\ UNCHANGED <<commandHandlers, queryHandlers, eventHandlers, middlewares>>
       /\ getStats' = getStats
       /\ getRegisteredHandlers' = getRegisteredHandlers

\* What a call returns is what the registries hold at the call.
ReturnsCurrent ==
  /\ CallGetStats => lastOp'.val = <<"stats", getStats>>
  /\ CallGetRegisteredHandlers
       => /\ lastOp'.val[2].commands = KeyList({t \in Types : commandHandlers[t] \in Handlers})
          /\ lastOp'.val[2].queries = KeyList({t \in Types : queryHandlers[t] \in Handlers})
          /\ lastOp'.val[2].events = KeyList({t \in Types : eventHandlers[t] # <<>>})

\* C21 getStats() and getRegisteredHandlers() are read-only: called in any
\* state, any number of times, they leave the three registries and the
\* middleware list unchanged, and a caller that mutates the returned lists
\* does not change the bus.
ReadOnly == [][IntrospectStep /\ ReturnsCurrent]_vars

\* The caller has emptied the events list it was handed while the bus still
\* has its event handler, its command handler and its middleware.
ReadOnlyWitness ==
  /\ lastOp.st = "ok" /\ lastOp.val # <<>> /\ lastOp.val[1] = "handlers"
  /\ lastOp.val[2].events = <<>>
  /\ lastOp.val[2].commands # <<>>
  /\ eventHandlers["T1"] # <<>>
  /\ getRegisteredHandlers.events # <<>>
  /\ middlewares # <<>>

\* ------------------------------------------------------- timed dispatches
\* The constructor: the defaults, each replaced by the value the given
\* config has for it ({ ...defaults, ...config }).
DefaultConfig ==
  [maxMiddleware |-> 10, commandTimeout |-> 30000, queryTimeout |-> 10000]

constructor(config) ==
  [k \in DOMAIN DefaultConfig |->
     IF k \in DOMAIN config THEN config[k] ELSE DefaultConfig[k]]

\* The config the bus is constructed with.
GivenConfig == [maxMiddleware |-> maxMiddleware]

\* The time in ms a handler takes from its invocation to its return or
\* throw: h1 takes longer than the query timeout and less than the command
\* timeout, h2 less than both.
Needs(h) == IF h = "h1" THEN 20000 ELSE 5000

\* The time after the start of invocation inv at which the handler call in
\* progress settles: every handler call of the chain so far ran one after
\* the other; middleware take no time of their own.
Elapsed(inv) == Needs(inv.handler) * Len(Handled(inv.log))

\* The handler of invocation i settles when its time has come: before the
\* timer if the timer is still to fire.
HandlerSettleTimed(i) ==
  /\ invs[i].timer = "pending" => Elapsed(invs[i]) < invs[i].timeoutMs
  /\ HandlerSettle(i)

\* setTimeout(..., timeoutMs): the timer of invocation i fires timeoutMs
\* after the start, that is after everything of the chain that is due
\* earlier.
TimerFiresTimed(i) ==
  /\ invs[i].stack # <<>> =>
       \/ Top(invs[i]).pc = "hung"
       \/ Top(invs[i]).isH /\ Elapsed(invs[i]) > invs[i].timeoutMs
  /\ TimerFires(i)

\* The bus with handlers of known duration.
NextTimed ==
  \/ \E m \in Middleware : use(m)
  \/ \E t \in Types, h \in Handlers : registerCommandHandler(t, h)
  \/ \E t \in Types, h \in Handlers : registerQueryHandler(t, h)
  \/ \E t \in Types, h \in Handlers : registerEventHandler(t, h)
  \/ clear
  \/ \E t \in Dispatched, in \in Inputs : executeCommand(t, in)
  \/ \E t \in Dispatched, in \in Inputs : executeQuery(t, in)
  \/ \E t \in Dispatched, in \in Inputs : publishEvent(t, in)
  \/ \E i \in 1..Len(invs) : HandlerSettleTimed(i)
  \/ \E i \in 1..Len(invs) : MwSettle(i)
  \/ \E i \in 1..Len(invs) : TimerFiresTimed(i)

SpecTimed == Init /\ [][NextTimed]_vars

\* Every chain is raced against the timeout of its kind.
RacedByKind ==
  \A i \in 1..Len(invs) :
    /\ invs[i].timeoutMs =
         IF calls[invs[i].call].kind = "query" THEN queryTimeout
         ELSE commandTimeout
    /\ TimedOut(invs[i])
         => invs[i].raceOut.val = <<"Timeout", invs[i].env.type, invs[i].timeoutMs>>

\* The timeouts are the defaults of the constructor unless the config gives
\* others.
ConfigOverrides ==
  /\ constructor(GivenConfig) =
       [maxMiddleware |-> maxMiddleware, commandTimeout |-> commandTimeout,
        queryTimeout |-> queryTimeout]
  /\ commandTimeout = 30000 /\ queryTimeout = 10000
  /\ \A ms \in {1, 20000, 60000} :
       /\ constructor([queryTimeout |-> ms]).queryTimeout = ms
       /\ constructor([queryTimeout |-> ms]).commandTimeout = 30000
       /\ constructor([commandTimeout |-> ms]).commandTimeout = ms
       /\ constructor([commandTimeout |-> ms]).queryTimeout = 10000

\* A handler that takes 20000 ms, reached through passing middleware only:
\* a query to it never succeeds and fails with Timeout once it has an
\* outcome; a command to it and an event published to it never time out.
SameDurationByKind ==
  \A c \in 1..Len(calls) :
    LET call == calls[c]
    IN (call.handlers # <<>> /\ AllPass(call.mws)
          /\ \A k \in 1..Len(call.handlers) : call.handlers[k] = "h1")
         => /\ call.kind = "query"
                 => call.outcome \in
                      {[st |-> "pending", val |-> <<>>],
                       [st |-> "fail", val |-> <<"Timeout", call.type, 10000>>]}
            /\ call.kind # "query"
                 => ~(call.outcome.st = "fail" /\ call.outcome.val[1] = "Timeout")

\* C22 Timeout selection by kind: executeCommand races its chain against
\* commandTimeout (default 30000 ms), executeQuery against queryTimeout
\* (default 10000 ms), every handler invocation of publishEvent against
\* commandTimeout, values given at construction replacing the defaults; so
\* a query whose handler needs more than queryTimeout and less than
\* commandTimeout fails with Timeout while a command or an event handler
\* of that duration succeeds.
TimeoutByKind == RacedByKind /\ ConfigOverrides /\ SameDurationByKind

\* One handler of 20000 ms bound to a command and to a query type: the
\* query has timed out after 10000 ms and the command has returned the
\* handler's result.
TimeoutByKindWitness ==
  \E c, q \in 1..Len(calls) :
    /\ calls[c].kind = "command" /\ calls[q].kind = "query"
    /\ calls[c].handlers = <<"h1">> /\ calls[q].handlers = <<"h1">>
    /\ calls[c].outcome.st = "ok"
    /\ calls[q].outcome = [st |-> "fail", val |-> <<"Timeout", calls[q].type, 10000>>]

\* How often the entry e occurs in the logs of the invocations ids.
RECURSIVE Occurrences(_, _)
Occurrences(e, ids) ==
  IF ids = <<>> THEN 0
  ELSE Len(SelectSeq(invs[ids[1]].log, LAMBDA x : x = e))
         + Occurrences(e, SubSeq(ids, 2, Len(ids)))

\* How often m occurs in the list mws.
Registered(m, mws) == Len(SelectSeq(mws, LAMBDA x : x = m))

\* C23 A chain per handler: a publishEvent to k handlers behind n passing
\* middleware starts k chains, the j-th ending in the j-th handler; each
\* chain observes the onion order of its own, m0-before ... its handler ...
\* m0-after; and when all k have completed every middleware has run its
\* pre-logic and its post-logic k times for each time it is registered.
ChainPerHandler ==
  \A c \in 1..Len(calls) :
    LET call == calls[c]
        k == Len(call.handlers)
    IN (call.kind = "event" /\ AllPass(call.mws)) =>
         /\ Len(call.invs) = k
         /\ \A j \in 1..k :
              LET inv == invs[call.invs[j]]
                  onion == Onion(call.mws, call.handlers[j], call.env)
              IN /\ inv.handler = call.handlers[j]
                 /\ Len(inv.log) <= Len(onion)
                 /\ inv.log = SubSeq(onion, 1, Len(inv.log))
                 /\ Len(inv.log) >= Len(call.mws) + 1
                 /\ inv.chainOut.st = "ok" => inv.log = onion
         /\ (\A j \in 1..k : invs[call.invs[j]].chainOut.st = "ok")
              => \A m \in Middleware, ph \in {"before", "after"} :
                   Occurrences([ph |-> ph, unit |-> m, env |-> call.env], call.invs)
                     = k * Registered(m, call.mws)

\* An event published to two handlers behind one middleware: both chains
\* have completed and the middleware has run twice.
ChainPerHandlerWitness ==
  \E c \in 1..Len(calls) :
    /\ calls[c].kind = "event"
    /\ calls[c].handlers = <<"h1", "h2">>
    /\ calls[c].mws = <<"mA">>
    /\ calls[c].outcome.st = "ok"
    /\ Occurrences([ph |-> "after", unit |-> "mA", env |-> calls[c].env],
                   calls[c].invs) = 2

\* The chain of invocation inv has run up to its first suspension point: it
\* has entered something and waits, in a handler or a middleware, for what
\* is outside the bus.
AtFirstSuspension(inv) ==
  /\ inv.log # <<>>
  /\ inv.stack # <<>>
  /\ Top(inv).pc \in {"io", "hung"}
  /\ inv.chainOut.st = "pending"

\* A publishEvent step starts one chain per handler in registration order,
\* invs being the invocations in the order they were started: when the step
\* is over each chain is at its first suspension point, the chain of an
\* earlier handler ahead of the chain of a later one, and nothing else has
\* run.
StartsInOrder ==
  \A t \in Types, in \in Inputs :
    publishEvent(t, in)
      => LET k == Len(eventHandlers[t])
         IN /\ Len(invs') = Len(invs) + k
            /\ \A i \in 1..Len(invs) : invs'[i] = invs[i]
            /\ \A j \in 1..k :
                 /\ invs'[Len(invs) + j].handler = eventHandlers[t][j]
                 /\ calls'[Len(calls')].invs[j] = Len(invs) + j
                 /\ AtFirstSuspension(invs'[Len(invs) + j])

\* The invocations of one publish keep their start order.
StartOrderKept ==
  \A c \in 1..Len(calls) :
    calls[c].kind = "event" =>
      \A j, k \in 1..Len(calls[c].invs) :
        j < k => /\ calls[c].invs[j] < calls[c].invs[k]
                 /\ invs[calls[c].invs[j]].handler = calls[c].handlers[j]

\* C24 publishEvent starts the handler invocations in registration order:
\* the chain of a handler registered earlier for the type runs up to its
\* first suspension point before the chain of a handler registered later
\* begins; completions may come in any order.
StartOrder == [][StartsInOrder]_vars /\ []StartOrderKept

\* Of two handlers of one publish the one registered later has completed
\* while the one registered earlier, started first, is still running.
StartOrderWitness ==
  \E c \in 1..Len(calls) :
    /\ calls[c].kind = "event"
    /\ calls[c].handlers = <<"h1", "h2">>
    /\ invs[calls[c].invs[2]].chainOut.st = "ok"
    /\ AtFirstSuspension(invs[calls[c].invs[1]])

\* Invocation k of the event call is the only one that has not succeeded.
OthersOk(call, k, is) ==
  \A j \in 1..Len(call.invs) : j # k => is[call.invs[j]].raceOut.st = "ok"

\* What a handler that has returned has done: it was called and its chain
\* has its result.
Completed(inv) ==
  /\ inv.chainOut.st = "ok"
  /\ Handled(inv.log) # <<>>

\* The timer of the one invocation still waiting fires: the publish fails
\* with Timeout for the command timeout and the completed siblings are as
\* they were.
HangFailsStep ==
  \A c \in 1..Len(calls) :
    calls[c].kind = "event" =>
      \A k \in 1..Len(calls[c].invs) :
        LET i == calls[c].invs[k]
        IN (/\ Unsettled(invs[i]) /\ invs[i].raceOut.st = "pending"
            /\ OthersOk(calls[c], k, invs)
            /\ invs'[i].timer = "fired" /\ invs[i].timer = "pending")
           => /\ calls[c].outcome.st = "pending"
              /\ calls'[c].outcome = Fail(Timeout(calls[c].type, commandTimeout))
              /\ \A j \in 1..Len(invs) : j # i => invs'[j] = invs[j]

\* Whenever one invocation of a publish has timed out and the others have
\* succeeded, the publish has failed with Timeout and the others are still
\* completed.
HangFailed ==
  \A c \in 1..Len(calls) :
    calls[c].kind = "event" =>
      \A k \in 1..Len(calls[c].invs) :
        (TimedOut(invs[calls[c].invs[k]]) /\ OthersOk(calls[c], k, invs))
          => /\ calls[c].outcome = Fail(Timeout(calls[c].type, commandTimeout))
             /\ \A j \in 1..Len(calls[c].invs) :
                  (j # k /\ AllPass(calls[c].mws))
                    => Completed(invs[calls[c].invs[j]])

\* C25 One handler that never settles: when one of the k handlers of a
\* publishEvent has not settled by the time the command timeout has elapsed,
\* the publish fails with Timeout although the other k-1 handlers have
\* completed, and what the completed handlers did stays done.
HangingSubscriber == [][HangFailsStep]_vars /\ []HangFailed

\* A publish to two handlers has failed with Timeout: the first handler has
\* returned, the second is still waiting in handle().
HangingSubscriberWitness ==
  \E c \in 1..Len(calls) :
    /\ calls[c].kind = "event"
    /\ Len(calls[c].invs) = 2
    /\ calls[c].outcome = Fail(Timeout(calls[c].type, commandTimeout))
    /\ Completed(invs[calls[c].invs[1]])
    /\ invs[calls[c].invs[1]].raceOut.st = "ok"
    /\ TimedOut(invs[calls[c].invs[2]])
    /\ invs[calls[c].invs[2]].stack # <<>>
    /\ Top(invs[calls[c].invs[2]]).isH
    /\ Top(invs[calls[c].invs[2]]).pc = "io"

\* The bus with middleware that answer for themselves.
NextOutcome ==
  \/ \E m \in OutcomeMiddleware : use(m)
  \/ \E t \in Types, h \in Handlers : registerCommandHandler(t, h)
  \/ \E t \in Types, h \in Handlers : registerQueryHandler(t, h)
  \/ \E t \in Types, h \in Handlers : registerEventHandler(t, h)
  \/ clear
  \/ \E t \in Dispatched, in \in Inputs : executeCommand(t, in)
  \/ \E t \in Dispatched, in \in Inputs : executeQuery(t, in)
  \/ \E t \in Dispatched, in \in Inputs : publishEvent(t, in)
  \/ \E i \in 1..Len(invs) : HandlerSettle(i)
  \/ \E i \in 1..Len(invs) : TimerFires(i)

SpecOutcome == Init /\ [][NextOutcome]_vars

\* What the chain of an invocation gave, by the kind of its outermost
\* middleware: a catching one never fails, a throwing one never succeeds, a
\* replacing one succeeds with its own value only.
OutermostAnswers ==
  \A i \in 1..Len(invs) :
    LET inv == invs[i]
        mws == calls[inv.call].mws
        out == inv.chainOut
    IN (mws # <<>> /\ out.st # "pending") =>
         /\ MwKind(mws[1]) = "catch" => out.st = "ok"
         /\ MwKind(mws[1]) = "throw" => out.st = "fail"
         /\ (MwKind(mws[1]) = "replace" /\ out.st = "ok")
              => \E r \in {out.val[3]} : out.val = Replaced(mws[1], r)

\* The same for a chain of one middleware around the handler: what the
\* middleware makes of each of the handler's two outcomes.
OneAroundHandler ==
  \A i \in 1..Len(invs) :
    LET inv == invs[i]
        mws == calls[inv.call].mws
        out == inv.chainOut
        res == HandlerResult(inv.handler, inv.env)
        err == HandlerFailure(inv.handler, inv.env.id)
    IN (Len(mws) = 1 /\ out.st # "pending") =>
         LET m == mws[1]
         IN /\ MwKind(m) = "catch" => out \in {Ok(res), Ok(Recovered(m, err))}
            /\ MwKind(m) = "replace" => out \in {Ok(Replaced(m, res)), Fail(err)}
            /\ MwKind(m) = "throw"
                 => out \in {Fail(MiddlewareFailure(m, inv.env.id)), Fail(err)}
            /\ MwKind(m) = "pass" => out \in {Ok(res), Fail(err)}

\* The caller of executeCommand / executeQuery gets what the chain gave
\* unless the timer was first; a publish succeeds or fails with its chains
\* and resolves without a value.
CallerGetsChainOutcome ==
  \A c \in 1..Len(calls) :
    \A k \in 1..Len(calls[c].invs) :
      LET inv == invs[calls[c].invs[k]]
      IN (inv.raceOut.st # "pending" /\ ~TimedOut(inv))
           => /\ inv.raceOut = inv.chainOut
              /\ calls[c].kind # "event" => calls[c].outcome = inv.chainOut
              /\ (calls[c].kind = "event" /\ inv.chainOut.st = "fail")
                   => calls[c].outcome.st = "fail"

\* C26 The outcome of a dispatch is the outcome of the outermost middleware:
\* one that catches the failure of its continuation and returns a value
\* makes the dispatch succeed with that value, one that replaces the
\* continuation's result makes the dispatch return the replaced result, one
\* that throws after a successful continuation makes the dispatch fail.
OutermostDecides ==
  OutermostAnswers /\ OneAroundHandler /\ CallerGetsChainOutcome

\* A command behind a catching middleware around a throwing one: the
\* handler returned, the inner middleware threw after it, and the command
\* has succeeded with the value of the outer middleware.
OutermostDecidesWitness ==
  \E c \in 1..Len(calls) :
    /\ calls[c].kind = "command"
    /\ calls[c].mws = <<"mCatch", "mThrow">>
    /\ calls[c].invs # <<>>
    /\ LET inv == invs[calls[c].invs[1]]
       IN calls[c].outcome =
            Ok(Recovered("mCatch", MiddlewareFailure("mThrow", inv.env.id)))

\* s is the beginning of t.
IsPrefix(s, t) == Len(s) <= Len(t) /\ SubSeq(t, 1, Len(s)) = s

\* Every entry of the three registries is still there after the step, bound
\* to the same handler and at the same position.
EntriesKept ==
  \A t \in Types :
    /\ commandHandlers[t] # NoHandler => commandHandlers'[t] = commandHandlers[t]
    /\ queryHandlers[t] # NoHandler => queryHandlers'[t] = queryHandlers[t]
    /\ IsPrefix(eventHandlers[t], eventHandlers'[t])

\* The step has emptied all three registries.
Cleared ==
  \A t \in Types : /\ commandHandlers'[t] = NoHandler
                   /\ queryHandlers'[t] = NoHandler
                   /\ eventHandlers'[t] = <<>>

\* C27 Registry entries are never individually removed: in every step that
\* is not a clear() the bound command and query types only grow, a bound
\* command or query type keeps its handler, and the handler list of every
\* event type only grows by appending; a step that removes an entry removes
\* them all.
NeverRemoved == [][EntriesKept \/ Cleared]_vars

\* The registries have grown over four calls: a command type is bound and
\* an event type has two subscribers in the order of their registration.
NeverRemovedWitness ==
  /\ nRegs = 4
  /\ commandHandlers["T1"] = "h1"
  /\ eventHandlers["T2"] = <<"h2", "h1">>
  /\ queryHandlers["T1"] = NoHandler

\* A step of a dispatch: a call is made or an invocation moves on.
DispatchStep == calls' # calls \/ invs' # invs

\* C28 Dispatch leaves the registry alone: no step of executeCommand,
\* executeQuery or publishEvent, of a handler or middleware settling or of a
\* timer firing changes the command, query or event registry or the
\* middleware list, however the call ends; a step that changes one of them
\* is a register*, use or clear call that succeeded.
DispatchFrame ==
  [][/\ DispatchStep => UNCHANGED registry
     /\ registry' # registry => (nRegs' = nRegs + 1 /\ lastOp'.st = "ok")]_vars

\* Three dispatches have ended, one with the handler's error, one with
\* Timeout and one with HandlerNotFound, and the handler is still bound.
DispatchFrameWitness ==
  /\ commandHandlers["T1"] # NoHandler
  /\ \E c \in 1..Len(calls) : /\ calls[c].outcome.st = "fail"
                              /\ calls[c].outcome.val[1] = "HandlerFailure"
  /\ \E c \in 1..Len(calls) : /\ calls[c].outcome.st = "fail"
                              /\ calls[c].outcome.val[1] = "Timeout"
  /\ \E c \in 1..Len(calls) : /\ calls[c].outcome.st = "fail"
                              /\ calls[c].outcome.val[1] = "HandlerNotFound"

\* What invocation inv has observed is the beginning of the onion of its
\* own chain, and the whole onion once its chain has its result; a chain
\* that failed stopped where the failure passed.
OwnOnion(inv) ==
  LET call == calls[inv.call]
      onion == Onion(call.mws, inv.handler, inv.env)
      n == Len(call.mws)
  IN /\ IsPrefix(inv.log, onion)
     /\ Len(inv.log) >= n + 1
     /\ inv.chainOut.st = "ok" => inv.log = onion
     /\ inv.chainOut.st # "ok" => Len(inv.log) = n + 1

\* Every invocation behind passing middleware observes its own onion,
\* whatever else is in flight.
OnionsIntact ==
  \A i \in 1..Len(invs) : AllPass(calls[invs[i].call].mws) => OwnOnion(invs[i])

\* A step in which one invocation moves on leaves every other invocation
\* as it is.
OneChainPerStep ==
  \A i, j \in 1..Len(invs) :
    (i # j /\ invs'[i] # invs[i]) => invs'[j] = invs[j]

\* C29 Concurrent dispatches do not disturb each other's chains: however the
\* dispatch calls in flight (the invocations of one publishEvent and
\* dispatches made while a handler is waiting included) interleave at their
\* suspension points, each observes the complete onion of its own chain, no
\* middleware skipped and none run twice.
ChainsIsolated == [][OneChainPerStep]_vars /\ []OnionsIntact

\* Two commands in flight at once behind one middleware: the second has
\* run its whole onion while the first, started earlier, still waits in its
\* handler.
ChainsIsolatedWitness ==
  /\ Len(calls) >= 2 /\ Len(invs) = 2
  /\ calls[invs[1].call].kind = "command"
  /\ calls[invs[2].call].kind = "command"
  /\ calls[invs[1].call].mws = <<"mA">>
  /\ calls[invs[2].call].mws = <<"mA">>
  /\ invs[1].chainOut.st = "pending"
  /\ invs[1].log = SubSeq(Onion(<<"mA">>, invs[1].handler, invs[1].env), 1, 2)
  /\ invs[2].chainOut.st = "ok"
  /\ invs[2].log = Onion(<<"mA">>, invs[2].handler, invs[2].env)

\* C30 The number of registered middleware never exceeds the configured
\* maximum, in any state the bus reaches through use() calls that succeed or
\* fail, clear() calls and dispatches.
MiddlewareBounded == Len(middlewares) <= constructor(GivenConfig).maxMiddleware

\* The list is full, the last use() was refused, and a dispatch has been
\* made with the full list.
MiddlewareBoundedWitness ==
  /\ Len(middlewares) = constructor(GivenConfig).maxMiddleware
  /\ lastOp = Fail(MiddlewareLimitExceeded)
  /\ \E c \in 1..Len(calls) : Len(calls[c].mws) = Len(middlewares)

\* ------------------------------------------------------- logging config
\* The logging part of TypeBusConfig.
LoggingConfigs ==
  [enableLogging : BOOLEAN, logLevel : {"info", "debug", "verbose"}]

Debug(cfg) == cfg.enableLogging /\ cfg.logLevel = "debug"

\* What each method that reads config.enableLogging or config.logLevel
\* makes of the bus as it is, for a bus constructed with cfg: the registry
\* it leaves, how it returns, and the lines it writes to the console.
registerCommandHandlerLogged(cfg, t, h) ==
  IF commandHandlers[t] # NoHandler
    THEN [map |-> commandHandlers, ret |-> Fail(DuplicateRegistration("command", t)),
          console |-> <<>>]
    ELSE [map |-> [commandHandlers EXCEPT ![t] = h], ret |-> Ok(<<>>),
          console |-> IF Debug(cfg) THEN <<<<"Registered command handler", t>>>>
                      ELSE <<>>]

registerQueryHandlerLogged(cfg, t, h) ==
  IF queryHandlers[t] # NoHandler
    THEN [map |-> queryHandlers, ret |-> Fail(DuplicateRegistration("query", t)),
          console |-> <<>>]
    ELSE [map |-> [queryHandlers EXCEPT ![t] = h], ret |-> Ok(<<>>),
          console |-> IF Debug(cfg) THEN <<<<"Registered query handler", t>>>>
                      ELSE <<>>]

registerEventHandlerLogged(cfg, t, h) ==
  LET pushed == [eventHandlers EXCEPT ![t] = Append(@, h)]
  IN [map |-> pushed, ret |-> Ok(<<>>),
      console |-> IF Debug(cfg)
                    THEN <<<<"Registered event handler", t, Len(pushed[t])>>>>
                    ELSE <<>>]

\* (clearLoggedOnly: the middleware list is reset inside the logging branch.)
clearLoggedOnly(cfg) ==
  [commandHandlers |-> [t \in Types |-> NoHandler],
   queryHandlers |-> [t \in Types |-> NoHandler],
   eventHandlers |-> [t \in Types |-> <<>>],
   middlewares |-> IF cfg.enableLogging THEN <<>> ELSE middlewares,
   console |-> IF cfg.enableLogging THEN <<<<"TypeBus cleared">>>> ELSE <<>>]

clearLogged(cfg) ==
  [commandHandlers |-> [t \in Types |-> NoHandler],
   queryHandlers |-> [t \in Types |-> NoHandler],
   eventHandlers |-> [t \in Types |-> <<>>],
   middlewares |-> <<>>,
   console |-> IF cfg.enableLogging THEN <<<<"TypeBus cleared">>>> ELSE <<>>]

\* publishEvent up to its await: the handlers it starts a chain for, whether
\* it has returned by then, and the console.  With no handlers part_005
\* returns after the logging branch, part_004 goes on to Promise.all([]).
publishEventLogged(cfg, t) ==
  LET handlers == eventHandlers[t]
  IN IF impl = "fold"
       THEN IF handlers = <<>>
              THEN [started |-> <<>>, returned |-> TRUE,
                    console |-> IF Debug(cfg) THEN <<<<"No handlers", t>>>> ELSE <<>>]
              ELSE [started |-> handlers, returned |-> FALSE, console |-> <<>>]
       ELSE [started |-> handlers, returned |-> handlers = <<>>,
             console |-> IF handlers = <<>> /\ cfg.enableLogging
                           THEN <<<<"No handlers", t>>>> ELSE <<>>]

\* Whatever the logging config, each call leaves the registry that the bus
\* of the model is left with, returns as it returns, and a publish starts
\* the chains it starts.
SameWhateverLogging ==
  /\ nRegs' # nRegs =>
       /\ \A t \in Types, h \in Handlers :
            /\ registerCommandHandler(t, h)
                 => \A cfg \in LoggingConfigs :
                      /\ commandHandlers' = registerCommandHandlerLogged(cfg, t, h).map
                      /\ lastOp' = registerCommandHandlerLogged(cfg, t, h).ret
            /\ registerQueryHandler(t, h)
                 => \A cfg \in LoggingConfigs :
                      /\ queryHandlers' = registerQueryHandlerLogged(cfg, t, h).map
                      /\ lastOp' = registerQueryHandlerLogged(cfg, t, h).ret
            /\ registerEventHandler(t, h)
                 => \A cfg \in LoggingConfigs :
                      /\ eventHandlers' = registerEventHandlerLogged(cfg, t, h).map
                      /\ lastOp' = registerEventHandlerLogged(cfg, t, h).ret
       /\ clear => \A cfg \in LoggingConfigs :
                     /\ commandHandlers' = clearLogged(cfg).commandHandlers
                     /\ queryHandlers' = clearLogged(cfg).queryHandlers
                     /\ eventHandlers' = clearLogged(cfg).eventHandlers
                     /\ middlewares' = clearLogged(cfg).middlewares
  /\ Len(calls') # Len(calls) =>
       \A t \in Types, in \in Inputs :
         publishEvent(t, in)
           => \A cfg \in LoggingConfigs :
                LET call == calls'[Len(calls')]
                    p == publishEventLogged(cfg, t)
                IN /\ call.handlers = p.started
                   /\ Len(call.invs) = Len(p.started)
                   /\ p.returned <=> call.outcome = Ok(<<>>)

\* C31 Logging configuration does not affect core semantics: buses that
\* differ in enableLogging and logLevel only, given the same calls, go
\* through the same registries and middleware lists and return the same to
\* every call; what differs is what they write to the console.
LoggingIndependent == [][SameWhateverLogging]_vars

\* The bus has been cleared and an event has been published to no
\* subscriber: calls in which, like in a registration, a bus with debug
\* logging writes to the console and a bus without logging does not.
LoggingIndependentWitness ==
  /\ BusEmpty
  /\ nRegs >= 2
  /\ \E c \in 1..Len(calls) :
       /\ calls[c].kind = "event" /\ calls[c].handlers = <<>>
       /\ calls[c].outcome = Ok(<<>>)
  /\ LET on == [enableLogging |-> TRUE, logLevel |-> "debug"]
         off == [enableLogging |-> FALSE, logLevel |-> "debug"]
     IN /\ clearLogged(on).console # clearLogged(off).console
        /\ registerCommandHandlerLogged(on, "T1", "h1").console
             # registerCommandHandlerLogged(off, "T1", "h1").console
        /\ publishEventLogged(on, "T1").console
             # publishEventLogged(off, "T1").console

\* C32 withTimeout clears its timer once the raced operation has completed:
\* when the race of a dispatch has settled, by the chain resolving or
\* rejecting before the timeout or by the timeout firing, no timer of that
\* dispatch is still pending.
TimerCleared ==
  \A i \in 1..Len(invs) :
    invs[i].raceOut.st # "pending" => invs[i].timer # "pending"

\* A command has returned its handler's result before the timeout.
TimerClearedWitness ==
  \E c \in 1..Len(calls) :
    /\ calls[c].kind = "command"
    /\ calls[c].invs # <<>>
    /\ calls[c].outcome.st = "ok"
    /\ invs[calls[c].invs[1]].raceOut = invs[calls[c].invs[1]].chainOut

\* ------------------------------------------------------------- liveness
\* The middleware of the bus whose timers are taken to fire: one that
\* never settles.
LiveMiddleware == {"mHang"}

\* The handler registered on that bus, for each kind of message.
LiveHandlers == {"h1"}

NextLive ==
  \/ \E m \in LiveMiddleware : use(m)
  \/ \E t \in Dispatched, h \in LiveHandlers : registerCommandHandler(t, h)
  \/ \E t \in Dispatched, h \in LiveHandlers : registerQueryHandler(t, h)
  \/ \E t \in Dispatched, h \in LiveHandlers : registerEventHandler(t, h)
  \/ clear
  \/ \E t \in Dispatched, in \in Inputs : executeCommand(t, in)
  \/ \E t \in Dispatched, in \in Inputs : executeQuery(t, in)
  \/ \E t \in Dispatched, in \in Inputs : publishEvent(t, in)
  \/ \E i \in 1..Len(invs) : HandlerSettle(i)
  \/ \E i \in 1..Len(invs) : TimerFires(i)

\* A timer that is set fires in the end (setTimeout with a finite delay);
\* nothing is assumed of handlers and middleware.
SpecLive ==
  /\ Init /\ [][NextLive]_vars
  /\ \A i \in 1..MaxInvs : WF_vars(i <= Len(invs) /\ TimerFires(i))

\* C33 Every dispatch call settles in the end: with timers that fire, each
\* executeCommand, executeQuery and publishEvent call returns a result or
\* fails (HandlerNotFound, a handler's failure or Timeout), even when its
\* handlers or middleware never settle.
EventuallySettles ==
  \A c \in 1..MaxOps :
    (c <= Len(calls))
      ~> (c <= Len(calls) /\ calls[c].outcome.st \in {"ok", "fail"})

\* A command behind a middleware that never settles has failed with
\* Timeout.
EventuallySettlesWitness ==
  \E c \in 1..Len(calls) :
    /\ calls[c].kind = "command"
    /\ calls[c].mws = <<"mHang">>
    /\ calls[c].invs # <<>>
    /\ Top(invs[calls[c].invs[1]]).pc = "hung"
    /\ calls[c].outcome = TimeoutOf(calls[c])

\* ------------------------------------------------- clear during a dispatch
\* The bus with a middleware that waits before it calls its continuation.
NextClear ==
  \/ \E m \in ClearMiddleware : use(m)
  \/ \E t \in Dispatched, h \in Handlers : registerCommandHandler(t, h)
  \/ \E t \in Dispatched, h \in Handlers : registerQueryHandler(t, h)
  \/ \E t \in Dispatched, h \in Handlers : registerEventHandler(t, h)
  \/ clear
  \/ \E t \in Dispatched, in \in Inputs : executeCommand(t, in)
  \/ \E t \in Dispatched, in \in Inputs : executeQuery(t, in)
  \/ \E t \in Dispatched, in \in Inputs : publishEvent(t, in)
  \/ \E i \in 1..Len(invs) : HandlerSettle(i)
  \/ \E i \in 1..Len(invs) : MwProceed(i)
  \/ \E i \in 1..Len(invs) : TimerFires(i)

\* The bus after use(mWait), use(mA), registerCommandHandler(T1, h1),
\* registerEventHandler(T1, h1) and registerEventHandler(T1, h2); the calls
\* counted from here on.
InitClear ==
  /\ impl \in Impls
  /\ commandHandlers = [t \in Types |-> IF t = "T1" THEN "h1" ELSE NoHandler]
  /\ queryHandlers = [t \in Types |-> NoHandler]
  /\ eventHandlers = [t \in Types |-> IF t = "T1" THEN <<"h1", "h2">> ELSE <<>>]
  /\ middlewares = <<"mWait", "mA">>
  /\ nextId = 1
  /\ calls = <<>>
  /\ invs = <<>>
  /\ lastOp = Ok(<<>>)
  /\ nRegs = 0

SpecClear == InitClear /\ [][NextClear]_vars

\* Every middleware of the list calls its continuation once, at once or
\* after a wait of its own.
PassesOn(mws) == \A k \in 1..Len(mws) : MwKind(mws[k]) \in {"pass", "wait"}

\* An invocation in flight on a bus that has been emptied goes on with its
\* own chain: what it observes stays a beginning of the onion it was
\* started with, the whole of it when it has its result.
GoesOnAfterClear ==
  \A i \in 1..Len(invs) :
    LET call == calls[invs[i].call]
        onion == Onion(call.mws, invs[i].handler, invs[i].env)
    IN (/\ MwProceed(i) \/ HandlerSettle(i)
        /\ middlewares = <<>> /\ call.mws # <<>>
        /\ PassesOn(call.mws)
        /\ IsPrefix(invs[i].log, onion))
       => /\ IsPrefix(invs'[i].log, onion)
          /\ Len(invs'[i].log) > Len(invs[i].log) \/ invs'[i].chainOut.st = "fail"
          /\ invs'[i].chainOut.st = "ok" => invs'[i].log = onion

\* A publish in flight keeps one invocation for each handler it found.
PublishKeepsHandlers ==
  \A c \in 1..Len(calls) :
    calls[c].kind = "event" =>
      /\ Len(calls[c].invs) = Len(calls[c].handlers)
      /\ \A j \in 1..Len(calls[c].invs) :
           invs[calls[c].invs[j]].handler = calls[c].handlers[j]

\* A dispatch made on the emptied bus finds nothing.
EmptyAfterClear ==
  (BusEmpty /\ Len(calls') = Len(calls) + 1)
    => LET call == calls'[Len(calls')]
       IN call.handlers = <<>> /\ call.mws = <<>> /\ call.invs = <<>>

\* C34 clear() called while a dispatch is in flight, suspended inside a
\* middleware or the handler, does not alter that dispatch: the middleware
\* not yet run and the handler bound at call time are still run in onion
\* order, an in-flight publishEvent keeps every handler registered at call
\* time, and only the dispatches started after the clear see the empty bus.
ClearLeavesInFlight ==
  /\ [][GoesOnAfterClear /\ EmptyAfterClear]_vars
  /\ []PublishKeepsHandlers

\* A command behind a waiting middleware and a passing one was suspended in
\* the waiting one when the bus was cleared, and has gone on to its handler.
ClearLeavesInFlightWitness ==
  \E c \in 1..Len(calls) :
    /\ calls[c].kind = "command"
    /\ calls[c].mws = <<"mWait", "mA">>
    /\ middlewares = <<>>
    /\ calls[c].invs # <<>>
    /\ Len(Handled(invs[calls[c].invs[1]].log)) = 1

\* A registration leaves every call made as it is and starts nothing.
LateSubscriberNotInvoked ==
  \A t \in Types, h \in Handlers :
    registerEventHandler(t, h) => (calls' = calls /\ invs' = invs)

\* The handlers and the invocations of a call are those it began with.
HandlersFixed ==
  \A c \in 1..Len(calls) :
    /\ calls'[c].handlers = calls[c].handlers
    /\ calls'[c].invs = calls[c].invs

\* A publish takes the handlers registered for its type when it is made,
\* the ones registered during an earlier publish among them.
PublishTakesCurrent ==
  \A t \in Types, in \in Inputs :
    publishEvent(t, in)
      => /\ calls'[Len(calls')].handlers = eventHandlers[t]
         /\ Len(calls'[Len(calls')].invs) = Len(eventHandlers[t])

\* Every invocation of a publish runs a handler the publish began with.
OnlyOwnHandlers ==
  \A i \in 1..Len(invs) :
    LET call == calls[invs[i].call]
    IN call.kind = "event" =>
         \E j \in 1..Len(call.invs) :
           call.invs[j] = i /\ invs[i].handler = call.handlers[j]

OwnRegistryOnly ==
  \A t \in Types, h \in Handlers :
    /\ registerCommandHandler(t, h)
         => /\ UNCHANGED <<queryHandlers, eventHandlers>>
            /\ lastOp'.st = "fail" <=> commandHandlers[t] # NoHandler
    /\ registerQueryHandler(t, h)
         => /\ UNCHANGED <<commandHandlers, eventHandlers>>
            /\ lastOp'.st = "fail" <=> queryHandlers[t] # NoHandler
    /\ registerEventHandler(t, h)
         => /\ UNCHANGED <<commandHandlers, queryHandlers>>
            /\ lastOp'.st = "ok"

\* What is bound to t in the registry of the kind.
Bound(kind, t) ==
  IF kind = "event" THEN eventHandlers[t]
  ELSE IF kind = "command"
    THEN IF commandHandlers[t] = NoHandler THEN <<>> ELSE <<commandHandlers[t]>>
    ELSE IF queryHandlers[t] = NoHandler THEN <<>> ELSE <<queryHandlers[t]>>

\* A dispatch looks its type up in the registry of its own kind.
OwnLookupOnly ==
  \A t \in Types, in \in Inputs :
    /\ executeCommand(t, in)
         => /\ calls'[Len(calls')].kind = "command"
            /\ calls'[Len(calls')].handlers = Bound("command", t)
    /\ executeQuery(t, in)
         => /\ calls'[Len(calls')].kind = "query"
            /\ calls'[Len(calls')].handlers = Bound("query", t)
    /\ publishEvent(t, in)
         => /\ calls'[Len(calls')].kind = "event"
            /\ calls'[Len(calls')].handlers = Bound("event", t)

\* A dispatch invokes the handlers it looked up and no other.
InvokesOwnKind ==
  \A i \in 1..Len(invs) :
    LET call == calls[invs[i].call]
    IN /\ \E j \in 1..Len(call.handlers) : invs[i].handler = call.handlers[j]
       /\ \A e \in 1..Len(Handled(invs[i].log)) :
            Handled(invs[i].log)[e].unit = invs[i].handler

\* C36 The three registries are independent namespaces: a handler bound for
\* type name T in one of them never makes a registration of T in another
\* fail and never changes a lookup in another; executeCommand(T) invokes
\* only the command handler of T, executeQuery(T) only the query handler,
\* publishEvent(T) only the event handlers.
IndependentNamespaces ==
  [][OwnRegistryOnly /\ OwnLookupOnly]_vars /\ []InvokesOwnKind

\* T1 is bound in all three registries, to h2 as a command and to h1 as a
\* query and an event, and a command T1 has been handled by h2.
IndependentNamespacesWitness ==
  /\ commandHandlers["T1"] = "h2"
  /\ queryHandlers["T1"] = "h1"
  /\ eventHandlers["T1"] = <<"h1">>
  /\ \E c \in 1..Len(calls) :
       /\ calls[c].kind = "command" /\ calls[c].type = "T1"
       /\ calls[c].handlers = <<"h2">>
       /\ Handled(invs[calls[c].invs[1]].log) # <<>>

\* ------------------------------------------------------------ envelopes
NextEnvelope ==
  \/ \E m \in EnvelopeMiddleware : use(m)
  \/ \E t \in Types, h \in Handlers : registerCommandHandler(t, h)
  \/ \E t \in Types, h \in Handlers : registerQueryHandler(t, h)
  \/ \E t \in Types, h \in Handlers : registerEventHandler(t, h)
  \/ clear
  \/ \E t \in Dispatched, in \in Inputs : executeCommand(t, in)
  \/ \E t \in Dispatched, in \in Inputs : executeQuery(t, in)
  \/ \E t \in Dispatched, in \in Inputs : publishEvent(t, in)
  \/ \E i \in 1..Len(invs) : HandlerSettle(i)
  \/ \E i \in 1..Len(invs) : TimerFires(i)

SpecEnvelope == Init /\ [][NextEnvelope]_vars

\* The envelope that reaches position k of a chain (k = n + 1 the handler)
\* when each middleware hands on what it was given or its substitute.
RECURSIVE Reaches(_, _, _)
Reaches(mws, env, k) ==
  IF k = 1 THEN env
  ELSE LET given == Reaches(mws, env, k - 1)
       IN IF MwKind(mws[k - 1]) = "subst"
            THEN Substituted(mws[k - 1], given)
            ELSE given

\* What has been entered in a chain, in order: middleware and handler.
EnteredOrHandled(log) == SelectSeq(log, LAMBDA e : e.ph \in {"before", "handle"})

\* Every middleware and the handler of every chain were given the envelope
\* their predecessor passed on, the first the envelope of the dispatch call.
GivenPredecessors ==
  \A i \in 1..Len(invs) :
    LET call == calls[invs[i].call]
        seen == EnteredOrHandled(invs[i].log)
    IN /\ invs[i].env = call.env
       /\ Len(seen) = Len(call.mws) + 1
       /\ \A k \in 1..Len(seen) : seen[k].env = Reaches(call.mws, call.env, k)

\* With middleware that pass their envelope on unchanged the handler is
\* given the envelope the dispatch call built.
UnchangedToHandler ==
  \A i \in 1..Len(invs) :
    AllPass(calls[invs[i].call].mws)
      => \A e \in 1..Len(Handled(invs[i].log)) :
           Handled(invs[i].log)[e].env = calls[invs[i].call].env

\* C37 The envelope handed to each middleware and to the handler is the one
\* its predecessor passed to the continuation: the envelope built by the
\* dispatch call when every middleware passes it on unchanged, and a
\* middleware's substitute, for every later middleware and the handler of
\* that chain, when a middleware passes on another envelope.
EnvelopePassedOn == GivenPredecessors /\ UnchangedToHandler

\* A command behind a substituting middleware and a passing one: the
\* passing middleware and the handler were given the substitute.
EnvelopePassedOnWitness ==
  \E c \in 1..Len(calls) :
    /\ calls[c].kind = "command"
    /\ calls[c].mws = <<"mSubst", "mA">>
    /\ calls[c].invs # <<>>
    /\ LET seen == EnteredOrHandled(invs[calls[c].invs[1]].log)
       IN /\ Len(seen) = 3
          /\ seen[1].env = calls[c].env
          /\ seen[2].env # calls[c].env
          /\ seen[3].env = seen[2].env

====
